---- MODULE Spec2Model ----
(***************************************************************************)
(* Trajectory classification and boundary extraction of the                *)
(* Phase-Bifurcation-Cosmogenesis scripts (src/scripts/*.py).              *)
(*                                                                         *)
(* Every script is modelled as a state machine of its own, with its own    *)
(* specification (SpecCrit, SpecFine, ...).  The variables of the scripts  *)
(* a specification does not run stay at their idle values.                 *)
(*                                                                         *)
(* Numbers.  Python floats are modelled by exact arithmetic on a grid:     *)
(*   - probabilities P_A are integers in tenths (5 is 0.5);                *)
(*   - phases are integers in hundredths of a radian (314 is pi);          *)
(*   - a quotient is kept as a record [num, den] and compared by cross     *)
(*     multiplication, never rounded.                                      *)
(* IEEE rounding is not modelled.                                          *)
(***************************************************************************)
EXTENDS Integers, Sequences, FiniteSets, TLC

VARIABLES
    \* compute_mphi_crit.py, find_mphi_crit
    mphi_vals, PA_means, target, mphi, PA, sign, fc_i, mphi_crit,
    fc_pc,
    \* phase_sector_boundary_fine_scan.py, classify_sector
    phi_array, tail, cs_ret, cs_pc,
    \* phase_sector_boundary_fine_scan.py, the scan
    fs_m, fs_k, sector_list, boundary_points, fs_csv, fs_pc,
    \* phase_sector_boundary_from_zoom.py
    data, zm_m_values, zm_i, df_m, zm_boundary_points, zm_csv, zm_pc,
    \* phase_sector_boundary_microfine.py
    mf_m, mf_k, last_sector, outfile, mf_boundary_points, mf_pc,
    \* phase_sector_map_2D.py, build_grid
    rows, bg_n, grid, bg_mphi_vals, bg_krot_vals, PA_grid, bg_i, bg_j,
    bg_pc,
    \* phase_sector_map.py
    sm_rows, rows_q, m_list, k_list, rows_map, sm_grid, sm_n, sm_pc,
    \* phase_sector_scan.py, classify_phase_trajectory
    delta_phi_arr, phi_mod, cp_ret, cp_pc,
    \* phase_sector_scan.py, the sweep
    sw_integ, sw_idx, sw_res, sw_sector, sw_stats, sw_files,
    sw_summary, sw_pc,
    \* compute_mphi_crit.py, read_sector_csvs
    rd_nfiles, rd_f, rd_header, rd_r, rd_n, rd_rows, rd_pc,
    \* phase_sector_map_2D.py, read_rows
    rr_nfiles, rr_f, rr_header, rr_r, rr_n, rr_rows, rr_pc,
    \* compute_mphi_crit.py, compute_PA_vs_mphi
    ag_rows, ag_n, groups, ag_mphi_vals, ag_PA_means, ag_PA_stds,
    ag_pc,
    \* compute_mphi_crit.py, main
    mn_dir, mn_rows, mn_stats, mn_mphi_crit, mn_printed, mn_json,
    mn_fig, mn_pc

critVars ==
    <<mphi_vals, PA_means, target, mphi, PA, sign, fc_i, mphi_crit,
      fc_pc>>

fineClassVars ==
    <<phi_array, tail, cs_ret, cs_pc>>

fineVars ==
    <<fs_m, fs_k, sector_list, boundary_points, fs_csv, fs_pc>>

zoomVars ==
    <<data, zm_m_values, zm_i, df_m, zm_boundary_points, zm_csv,
      zm_pc>>

microVars ==
    <<mf_m, mf_k, last_sector, outfile, mf_boundary_points, mf_pc>>

gridVars ==
    <<rows, bg_n, grid, bg_mphi_vals, bg_krot_vals, PA_grid, bg_i,
      bg_j, bg_pc>>

mapVars ==
    <<sm_rows, rows_q, m_list, k_list, rows_map, sm_grid, sm_n,
      sm_pc>>

scanClassVars ==
    <<delta_phi_arr, phi_mod, cp_ret, cp_pc>>

sweepVars ==
    <<sw_integ, sw_idx, sw_res, sw_sector, sw_stats, sw_files,
      sw_summary, sw_pc>>

readVars ==
    <<rd_nfiles, rd_f, rd_header, rd_r, rd_n, rd_rows, rd_pc>>

readRowsVars ==
    <<rr_nfiles, rr_f, rr_header, rr_r, rr_n, rr_rows, rr_pc>>

aggVars ==
    <<ag_rows, ag_n, groups, ag_mphi_vals, ag_PA_means, ag_PA_stds,
      ag_pc>>

mainVars ==
    <<mn_dir, mn_rows, mn_stats, mn_mphi_crit, mn_printed, mn_json,
      mn_fig, mn_pc>>

vars ==
    <<critVars, fineClassVars, fineVars, zoomVars, microVars,
      gridVars, mapVars, scanClassVars, sweepVars, readVars,
      readRowsVars, aggVars, mainVars>>

\* What each script leaves alone: the variables of the other scripts.
notCrit ==
    <<fineClassVars, fineVars, zoomVars, microVars, gridVars, mapVars,
      scanClassVars, sweepVars, readVars, readRowsVars, aggVars,
      mainVars>>

notFineClass ==
    <<critVars, fineVars, zoomVars, microVars, gridVars, mapVars,
      scanClassVars, sweepVars, readVars, readRowsVars, aggVars,
      mainVars>>

notFine ==
    <<critVars, fineClassVars, zoomVars, microVars, gridVars, mapVars,
      scanClassVars, sweepVars, readVars, readRowsVars, aggVars,
      mainVars>>

notZoom ==
    <<critVars, fineClassVars, fineVars, microVars, gridVars, mapVars,
      scanClassVars, sweepVars, readVars, readRowsVars, aggVars,
      mainVars>>

notMicro ==
    <<critVars, fineClassVars, fineVars, zoomVars, gridVars, mapVars,
      scanClassVars, sweepVars, readVars, readRowsVars, aggVars,
      mainVars>>

notGrid ==
    <<critVars, fineClassVars, fineVars, zoomVars, microVars, mapVars,
      scanClassVars, sweepVars, readVars, readRowsVars, aggVars,
      mainVars>>

notMap ==
    <<critVars, fineClassVars, fineVars, zoomVars, microVars,
      gridVars, scanClassVars, sweepVars, readVars, readRowsVars,
      aggVars, mainVars>>

notScanClass ==
    <<critVars, fineClassVars, fineVars, zoomVars, microVars,
      gridVars, mapVars, sweepVars, readVars, readRowsVars, aggVars,
      mainVars>>

notSweep ==
    <<critVars, fineClassVars, fineVars, zoomVars, microVars,
      gridVars, mapVars, scanClassVars, readVars, readRowsVars,
      aggVars, mainVars>>

notRead ==
    <<critVars, fineClassVars, fineVars, zoomVars, microVars,
      gridVars, mapVars, scanClassVars, sweepVars, readRowsVars,
      aggVars, mainVars>>

notReadRows ==
    <<critVars, fineClassVars, fineVars, zoomVars, microVars,
      gridVars, mapVars, scanClassVars, sweepVars, readVars, aggVars,
      mainVars>>

notAgg ==
    <<critVars, fineClassVars, fineVars, zoomVars, microVars,
      gridVars, mapVars, scanClassVars, sweepVars, readVars,
      readRowsVars, mainVars>>

notMain ==
    <<critVars, fineClassVars, fineVars, zoomVars, microVars,
      gridVars, mapVars, scanClassVars, sweepVars, readVars,
      readRowsVars, aggVars>>

(***************************************************************************)
(* Bounds of the model.                                                    *)
(***************************************************************************)
MaxLen == 3       \* most samples handed to find_mphi_crit
MaxCoord == 3     \* m_phi coordinates are 1..MaxCoord
PAMax == 7        \* responses are 0..PAMax tenths
NM == 2           \* m_phi rows of a scan
NK == 4           \* k_rot samples of a row
MaxRec == 3       \* most records of a zoom CSV set
MicroNM == 2      \* m_phi rows of the micro-fine scan
MicroNK == 3      \* k_rot samples of a micro-fine row
MaxRows == 3      \* most records handed to build_grid
MaxMapRows == 2   \* most rows of the summary CSV read by the sector map
SweepNM == 2      \* entries of m_phi_list the sweep takes
SweepNK == 2      \* entries of k_rot_list the sweep takes
SweepND == 2      \* entries of delta_phi_ini_list the sweep takes
MaxFiles == 1     \* most CSV files in the results directory
MaxCsvRows == 2   \* most CSV rows a reader is given
MaxAggRows == 3   \* most records handed to compute_PA_vs_mphi
MaxMainRows == 2  \* most rows of a CSV file read by main

(***************************************************************************)
(* Numbers.                                                                *)
(***************************************************************************)
\* Python's None as a crossing result.
None == [none |-> TRUE, num |-> 0, den |-> 1]

\* The quotient num/den as a result that is not None.
Rat(n, d) == [none |-> FALSE, num |-> n, den |-> d]

\* a < b for two quotients whose denominators may be negative.
RatLess(a, b) ==
    LET an == IF a.den < 0 THEN -a.num ELSE a.num
        ad == IF a.den < 0 THEN -a.den ELSE a.den
        bn == IF b.den < 0 THEN -b.num ELSE b.num
        bd == IF b.den < 0 THEN -b.den ELSE b.den
    IN  an * bd < bn * ad

RatEq(a, b) == a.num * b.den = b.num * a.den

\* np.sign
Sign(x) == IF x > 0 THEN 1 ELSE IF x < 0 THEN -1 ELSE 0

RECURSIVE SumRange(_, _, _)
\* s[lo] + ... + s[hi], by halves
SumRange(s, lo, hi) ==
    IF lo > hi THEN 0
    ELSE IF lo = hi THEN s[lo]
    ELSE LET mid == (lo + hi) \div 2
         IN  SumRange(s, lo, mid) + SumRange(s, mid + 1, hi)

Sum(s) == SumRange(s, 1, Len(s))

\* np.mean(s) < c.  The mean of no sample is NaN, below nothing.
MeanLess(s, c) == Len(s) > 0 /\ Sum(s) < c * Len(s)

\* c < np.mean(s)
MeanGreater(s, c) == Len(s) > 0 /\ Sum(s) > c * Len(s)

\* np.std(s) < tol, the population deviation sqrt(mean(|x - mean|^2)):
\* with n samples of sum S, sum (n*x - S)^2 < tol^2 * n^3.
StdLess(s, tol) ==
    LET n == Len(s)
        S == Sum(s)
    IN  /\ n > 0
        /\ Sum([k \in 1..n |-> (n * s[k] - S) * (n * s[k] - S)])
              < tol * tol * n * n * n

\* An integrated trajectory of n samples: the value v1, then v2 on the
\* last c samples.
Traj(n, v1, v2, c) == [k \in 1..n |-> IF k > n - c THEN v2 ELSE v1]

(***************************************************************************)
(* compute_mphi_crit.py: find_mphi_crit(mphi_vals, PA_means, target)       *)
(***************************************************************************)
TARGET_PA == 5    \* 0.5 in tenths

\* The sequences of distinct coordinates of length n.
DistinctSeqs(n) ==
    {s \in [1..n -> 1..MaxCoord] : \A a, b \in 1..n : a # b => s[a] # s[b]}

\* np.argsort on distinct values: position r holds the index of the value
\* that has exactly r-1 smaller values.
ArgSort(vals) ==
    [r \in 1..Len(vals) |->
        CHOOSE a \in 1..Len(vals) :
            Cardinality({b \in 1..Len(vals) : vals[b] < vals[a]}) = r - 1]

\* arr[idx_sort]
Take(arr, idx) == [r \in 1..Len(idx) |-> arr[idx[r]]]

\* The test of line 124 on two signs.
IsCrossingLoose(s1, s2) == s1 * s2 <= 0

IsCrossing(s1, s2) == s1 * s2 < 0

\* Lines 130-131: frac = (target - p1) / (p2 - p1); m1 + frac * (m2 - m1).
InterpolateFromP2(m1, m2, p1, p2, t) ==
    Rat(m1 * (p2 - p1) + (t - p2) * (m2 - m1), p2 - p1)

Interpolate(m1, m2, p1, p2, t) ==
    Rat(m1 * (p2 - p1) + (t - p1) * (m2 - m1), p2 - p1)

CritInit ==
    /\ \E n \in 0..MaxLen :
          /\ mphi_vals \in DistinctSeqs(n)
          /\ PA_means \in [1..n -> 0..PAMax]
    /\ target = TARGET_PA
    /\ mphi = <<>>
    /\ PA = <<>>
    /\ sign = <<>>
    /\ fc_i = 0
    /\ mphi_crit = None
    /\ fc_pc = "call"

\* Lines 116-121: sort both arrays by m_phi, take the signs of PA - target.
FcSort ==
    /\ fc_pc = "call"
    /\ LET idx_sort == ArgSort(mphi_vals)
       IN  /\ mphi' = Take(mphi_vals, idx_sort)
           /\ PA' = Take(PA_means, idx_sort)
           /\ sign' = [r \in 1..Len(idx_sort) |->
                          Sign(PA_means[idx_sort[r]] - target)]
    /\ fc_i' = 1
    /\ fc_pc' = "loop"
    /\ UNCHANGED <<mphi_vals, PA_means, target, mphi_crit>>
    /\ UNCHANGED notCrit

\* Lines 123-131: one iteration of the loop over consecutive pairs.
FcLoop ==
    /\ fc_pc = "loop"
    /\ fc_i <= Len(mphi) - 1
    /\ IF IsCrossing(sign[fc_i], sign[fc_i + 1]) /\ PA[fc_i + 1] # PA[fc_i]
       THEN /\ mphi_crit' = Interpolate(mphi[fc_i], mphi[fc_i + 1],
                                        PA[fc_i], PA[fc_i + 1], target)
            /\ fc_pc' = "done"
            /\ UNCHANGED fc_i
       ELSE /\ fc_i' = fc_i + 1
            /\ UNCHANGED <<mphi_crit, fc_pc>>
    /\ UNCHANGED <<mphi_vals, PA_means, target, mphi, PA, sign>>
    /\ UNCHANGED notCrit

\* Line 133: the loop ran out of pairs.
FcReturnNone ==
    /\ fc_pc = "loop"
    /\ fc_i > Len(mphi) - 1
    /\ mphi_crit' = None
    /\ fc_pc' = "done"
    /\ UNCHANGED <<mphi_vals, PA_means, target, mphi, PA, sign, fc_i>>
    /\ UNCHANGED notCrit

CritNext == FcSort \/ FcLoop \/ FcReturnNone

CritIdle ==
    /\ mphi_vals = <<>>
    /\ PA_means = <<>>
    /\ target = TARGET_PA
    /\ mphi = <<>>
    /\ PA = <<>>
    /\ sign = <<>>
    /\ fc_i = 0
    /\ mphi_crit = None
    /\ fc_pc = "idle"

(***************************************************************************)
(* phase_sector_boundary_fine_scan.py: classify_sector(phi_array).         *)
(* Phases of this script are integers in tenths of a radian.               *)
(***************************************************************************)
FINE_TAIL == 200      \* tail = phi_array[-200:]
FINE_MEAN_MAX == 5    \* mean_tail < 0.5
FINE_STD_MAX == 1     \* std_tail < 0.1

\* The trajectories the integrator hands to the classifier.
FineLens == {0, 1, 200, 300}
FineCuts == {100, 200}
FineVals == {0, 1, 3, 4, 5, 6, 10}

FineTrajs ==
    {Traj(n, v1, v2, c) : n \in FineLens, v1 \in FineVals, v2 \in FineVals,
                          c \in FineCuts}

\* Line 61: phi_array[-200:], the whole array when it is shorter.
FineTailOf(arr) ==
    IF Len(arr) <= FINE_TAIL THEN arr
    ELSE SubSeq(arr, Len(arr) - FINE_TAIL + 1, Len(arr))

\* Lines 62-69 with mean_tail <= 0.5.
FineDecideNotStrict(t) ==
    IF Len(t) > 0 /\ ~ MeanGreater(t, FINE_MEAN_MAX) /\ StdLess(t, FINE_STD_MAX)
    THEN "A" ELSE "C"

\* Lines 62-69: A when the tail mean and deviation are both small.
FineDecide(t) ==
    IF MeanLess(t, FINE_MEAN_MAX) /\ StdLess(t, FINE_STD_MAX)
    THEN "A" ELSE "C"

classify_sector(arr) == FineDecide(FineTailOf(arr))

\* The labels the scan can see: the classifier on what the integrator returns.
FineLabels == {classify_sector(dphi_arr) : dphi_arr \in FineTrajs}

FineClassInit ==
    /\ phi_array \in FineTrajs
    /\ tail = <<>>
    /\ cs_ret = "none"
    /\ cs_pc = "call"

\* Line 61.
CsTail ==
    /\ cs_pc = "call"
    /\ tail' = FineTailOf(phi_array)
    /\ cs_pc' = "stats"
    /\ UNCHANGED <<phi_array, cs_ret>>
    /\ UNCHANGED notFineClass

\* Lines 62-69.
CsDecide ==
    /\ cs_pc = "stats"
    /\ cs_ret' = FineDecide(tail)
    /\ cs_pc' = "done"
    /\ UNCHANGED <<phi_array, tail>>
    /\ UNCHANGED notFineClass

FineClassNext == CsTail \/ CsDecide

FineClassIdle ==
    /\ phi_array = <<>>
    /\ tail = <<>>
    /\ cs_ret = "none"
    /\ cs_pc = "idle"

(***************************************************************************)
(* phase_sector_boundary_fine_scan.py: the scan over (m_phi, k_rot).       *)
(* k_rot is in units of half a grid step, so a midpoint is an integer.     *)
(***************************************************************************)
\* Lines 34-37: the m_phi rows, by position.
m_values == [r \in 1..NM |-> r]

\* Line 42: np.linspace(k_min, k_max, N_k), an even grid.
k_values == [j \in 1..NK |-> 2 * (j - 1)]

\* Lines 103-104.
IndicesOf(sl, label) == {j \in 1..Len(sl) : sl[j] = label}

SetMax(S) == CHOOSE x \in S : \A y \in S : y <= x

SetMin(S) == CHOOSE x \in S : \A y \in S : x <= y

NoBoundary == [found |-> FALSE, k_crit |-> 0]

\* Lines 103-119 without the test of line 113.
RowBoundaryNoOverlapTest(sl) ==
    LET idx_A == IndicesOf(sl, "A")
        idx_C == IndicesOf(sl, "C")
    IN  IF idx_A = {} \/ idx_C = {} THEN NoBoundary
        ELSE [found |-> TRUE,
              k_crit |-> (k_values[SetMax(idx_A)] + k_values[SetMin(idx_C)]) \div 2]

\* Lines 103-119: the A -> C transition of one row, if it has one.
RowBoundary(sl) ==
    LET idx_A == IndicesOf(sl, "A")
        idx_C == IndicesOf(sl, "C")
    IN  IF idx_A = {} \/ idx_C = {} THEN NoBoundary
        ELSE LET last_A == SetMax(idx_A)
                 first_C == SetMin(idx_C)
             IN  IF first_C <= last_A THEN NoBoundary
                 ELSE [found |-> TRUE,
                       k_crit |-> (k_values[last_A] + k_values[first_C]) \div 2]

FineInit ==
    /\ fs_m = 1
    /\ fs_k = 1
    /\ sector_list = <<>>
    /\ boundary_points = <<>>
    /\ fs_csv = <<>>
    /\ fs_pc = "scan"

\* Lines 86-100: integrate one (m, k) and classify the trajectory.
FsScanStep ==
    /\ fs_pc = "scan"
    /\ fs_k <= NK
    /\ \E s \in FineLabels : sector_list' = Append(sector_list, s)
    /\ fs_k' = fs_k + 1
    /\ UNCHANGED <<fs_m, boundary_points, fs_csv, fs_pc>>
    /\ UNCHANGED notFine

\* Lines 102-122: after the row, record its boundary point or skip the row.
FsDetect ==
    /\ fs_pc = "scan"
    /\ fs_k > NK
    /\ LET b == RowBoundary(sector_list)
       IN  boundary_points' =
              IF b.found
              THEN Append(boundary_points, <<m_values[fs_m], b.k_crit>>)
              ELSE boundary_points
    /\ fs_pc' = "rowend"
    /\ UNCHANGED <<fs_m, fs_k, sector_list, fs_csv>>
    /\ UNCHANGED notFine

\* Lines 81-84: the next row starts with an empty sector_list.
FsNextRow ==
    /\ fs_pc = "rowend"
    /\ fs_m < NM
    /\ fs_m' = fs_m + 1
    /\ fs_k' = 1
    /\ sector_list' = <<>>
    /\ fs_pc' = "scan"
    /\ UNCHANGED <<boundary_points, fs_csv>>
    /\ UNCHANGED notFine

\* Lines 128-132: write the boundary points.
FsSave ==
    /\ fs_pc = "rowend"
    /\ fs_m >= NM
    /\ fs_csv' = boundary_points
    /\ fs_pc' = "done"
    /\ UNCHANGED <<fs_m, fs_k, sector_list, boundary_points>>
    /\ UNCHANGED notFine

FineNext == FsScanStep \/ FsDetect \/ FsNextRow \/ FsSave

FineIdle ==
    /\ fs_m = 0
    /\ fs_k = 0
    /\ sector_list = <<>>
    /\ boundary_points = <<>>
    /\ fs_csv = <<>>
    /\ fs_pc = "idle"

(***************************************************************************)
(* phase_sector_boundary_from_zoom.py: A-C boundary from the zoom maps.    *)
(* Delta_phi_ini is in units of half a grid step.                          *)
(***************************************************************************)
\* The records a zoom CSV can hold.
ZoomMphi == {1, 2}
ZoomDphi == {0, 2, 4}
ZoomSectors == {"A", "B", "C", "X"}

ZoomRecords ==
    [m_phi : ZoomMphi, Delta_phi_ini : ZoomDphi, sector : ZoomSectors]

\* Lines 61-62: Series.map(sector_map); a label that is no key maps to NaN,
\* written -1 here: it equals no code.
SectorCode(sector) ==
    CASE sector = "A" -> 0
      [] sector = "B" -> 1
      [] sector = "C" -> 2
      [] OTHER -> -1

\* np.sort(unique): the set as an ascending sequence.
SortedSeq(S) ==
    [r \in 1..Cardinality(S) |->
        CHOOSE x \in S : Cardinality({y \in S : y < x}) = r - 1]

\* Line 78: the records of one m_phi, in file order.
RowsOf(d, m) == SelectSeq(d, LAMBDA r : r.m_phi = m)

\* Line 78: sort_values("Delta_phi_ini").  The default sort is not stable:
\* any order of the row that ascends in Delta_phi_ini can come out.
SortedOrders(row) ==
    {[r \in 1..Len(row) |-> row[f[r]]] :
        f \in {g \in [1..Len(row) -> 1..Len(row)] :
                 /\ \A a, b \in 1..Len(row) : a # b => g[a] # g[b]
                 /\ \A a, b \in 1..Len(row) :
                       a < b => row[g[a]].Delta_phi_ini <= row[g[b]].Delta_phi_ini}}

\* Line 86 as "the labels differ".
IsAnyChange(s1, s2) == s1 # s2

\* Line 86: {s1, s2} == {0, 2}
IsACPair(s1, s2) == {s1, s2} = {0, 2}

RECURSIVE ZoomPairsFrom(_, _, _)
\* Lines 84-89 from pair j on: the boundary points of one sorted row.
ZoomPairsFrom(m, df, j) ==
    IF j > Len(df) - 1 THEN <<>>
    ELSE LET s1 == SectorCode(df[j].sector)
             s2 == SectorCode(df[j + 1].sector)
             k_est == (df[j].Delta_phi_ini + df[j + 1].Delta_phi_ini) \div 2
         IN  (IF IsACPair(s1, s2) THEN <<<<m, k_est>>>> ELSE <<>>)
                \o ZoomPairsFrom(m, df, j + 1)

ZoomInit ==
    /\ \E n \in 0..MaxRec : data \in [1..n -> ZoomRecords]
    /\ zm_m_values = <<>>
    /\ zm_i = 0
    /\ df_m = <<>>
    /\ zm_boundary_points = <<>>
    /\ zm_csv = <<>>
    /\ zm_pc = "load"

\* Lines 61-75: the codes, the empty result, the sorted distinct m_phi.
ZmPrepare ==
    /\ zm_pc = "load"
    /\ zm_m_values' = SortedSeq({data[r].m_phi : r \in 1..Len(data)})
    /\ zm_i' = 0
    /\ zm_pc' = "rows"
    /\ UNCHANGED <<data, df_m, zm_boundary_points, zm_csv>>
    /\ UNCHANGED notZoom

\* Lines 77-91: one m_phi row.
ZmRow ==
    /\ zm_pc = "rows"
    /\ zm_i < Len(zm_m_values)
    /\ LET m == zm_m_values[zm_i + 1]
       IN  \E sorted \in SortedOrders(RowsOf(data, m)) :
              /\ df_m' = sorted
              /\ zm_boundary_points' =
                    zm_boundary_points \o ZoomPairsFrom(m, sorted, 1)
    /\ zm_i' = zm_i + 1
    /\ UNCHANGED <<data, zm_m_values, zm_csv, zm_pc>>
    /\ UNCHANGED notZoom

\* Lines 93-112: the boundary is saved when it has a point.
ZmSave ==
    /\ zm_pc = "rows"
    /\ zm_i >= Len(zm_m_values)
    /\ zm_csv' = zm_boundary_points
    /\ zm_pc' = "done"
    /\ UNCHANGED <<data, zm_m_values, zm_i, df_m, zm_boundary_points>>
    /\ UNCHANGED notZoom

ZoomNext == ZmPrepare \/ ZmRow \/ ZmSave

ZoomIdle ==
    /\ data = <<>>
    /\ zm_m_values = <<>>
    /\ zm_i = 0
    /\ df_m = <<>>
    /\ zm_boundary_points = <<>>
    /\ zm_csv = <<>>
    /\ zm_pc = "idle"

(***************************************************************************)
(* phase_sector_boundary_microfine.py: classify_sector(a, dphi) and the    *)
(* scan.  Phases of this script are in hundredths of a radian.             *)
(***************************************************************************)
MF_TAIL_FROM == 85    \* 1 - tail_frac, in percent
MF_STD_MAX == 5       \* std_tail < 0.05
MF_MEAN_MAX == 250    \* abs(mean_tail) < 2.5

MicroLens == {0, 1, 20, 40}
MicroCuts == {3, 6}
MicroVals == {-300, 0, 10, 250, 300}

MicroTrajs ==
    {Traj(n, v1, v2, c) : n \in MicroLens, v1 \in MicroVals, v2 \in MicroVals,
                          c \in MicroCuts}

\* Line 54: dphi[int(len(dphi)*(1-tail_frac)):]
MicroTailOf(dphi) ==
    SubSeq(dphi, (Len(dphi) * MF_TAIL_FROM) \div 100 + 1, Len(dphi))

\* Lines 55-64.
MicroDecide(t) ==
    IF StdLess(t, MF_STD_MAX)
    THEN IF MeanLess(t, MF_MEAN_MAX) /\ MeanGreater(t, -MF_MEAN_MAX)
         THEN "A" ELSE "B"
    ELSE "C"

mf_classify_sector(dphi) == MicroDecide(MicroTailOf(dphi))

\* The labels the scan can see: the classifier on what the integrator returns.
MicroLabels == {mf_classify_sector(dphi) : dphi \in MicroTrajs}

\* Lines 28-29: the grid, by position.
mf_m_values == [r \in 1..MicroNM |-> r]

mf_k_values == [j \in 1..MicroNK |-> j]

\* A row that starts with the label the row before ended with.
KeepLastSector(prev) == prev

\* Line 72: last_sector = None
ResetLastSector(prev) == "None"

MicroInit ==
    /\ mf_m = 1
    /\ mf_k = 1
    /\ last_sector = "None"
    /\ outfile = <<>>
    /\ mf_boundary_points = <<>>
    /\ mf_pc = "scan"

\* Lines 74-98: integrate, classify, append the row, compare with the
\* sample before.
MfScanStep ==
    /\ mf_pc = "scan"
    /\ mf_k <= MicroNK
    /\ \E sector \in MicroLabels :
          /\ outfile' = Append(outfile, [m_phi |-> mf_m_values[mf_m],
                                         k_rot |-> mf_k_values[mf_k],
                                         sector |-> sector])
          /\ mf_boundary_points' =
                IF last_sector # "None" /\ sector # last_sector
                THEN Append(mf_boundary_points,
                            <<mf_m_values[mf_m], mf_k_values[mf_k]>>)
                ELSE mf_boundary_points
          /\ last_sector' = sector
    /\ mf_k' = mf_k + 1
    /\ UNCHANGED <<mf_m, mf_pc>>
    /\ UNCHANGED notMicro

\* Lines 70-72: the next row.
MfNextRow ==
    /\ mf_pc = "scan"
    /\ mf_k > MicroNK
    /\ mf_m < MicroNM
    /\ mf_m' = mf_m + 1
    /\ mf_k' = 1
    /\ last_sector' = ResetLastSector(last_sector)
    /\ UNCHANGED <<outfile, mf_boundary_points, mf_pc>>
    /\ UNCHANGED notMicro

\* Lines 101-123: the sweep is over, the boundary is plotted.
MfFinish ==
    /\ mf_pc = "scan"
    /\ mf_k > MicroNK
    /\ mf_m >= MicroNM
    /\ mf_pc' = "done"
    /\ UNCHANGED <<mf_m, mf_k, last_sector, outfile, mf_boundary_points>>
    /\ UNCHANGED notMicro

MicroNext == MfScanStep \/ MfNextRow \/ MfFinish

MicroIdle ==
    /\ mf_m = 0
    /\ mf_k = 0
    /\ last_sector = "None"
    /\ outfile = <<>>
    /\ mf_boundary_points = <<>>
    /\ mf_pc = "idle"

(***************************************************************************)
(* phase_sector_map_2D.py: build_grid(rows).  P_A is in tenths.            *)
(***************************************************************************)
\* A float that is NaN, and the float num/den.
NaN == [nan |-> TRUE, num |-> 0, den |-> 1]

Num(n, d) == [nan |-> FALSE, num |-> n, den |-> d]

\* The records read_rows can hand over.
GridMphi == {1, 2}
GridKrot == {1, 2}
GridPA == {NaN, Num(0, 1), Num(4, 1), Num(6, 1)}

GridRecords == [m_phi : GridMphi, k_rot : GridKrot, P_A : GridPA]

\* np.sum in place of np.mean
SumOf(vals) ==
    IF \E r \in 1..Len(vals) : vals[r].nan THEN NaN
    ELSE Num(Sum([r \in 1..Len(vals) |-> vals[r].num]), 1)

\* Line 106: np.mean(vals) of a list that is not empty; NaN if it holds one.
MeanOf(vals) ==
    IF \E r \in 1..Len(vals) : vals[r].nan THEN NaN
    ELSE Num(Sum([r \in 1..Len(vals) |-> vals[r].num]), Len(vals))

\* Line 100: np.full((K, M), np.nan)
FullNaN(K, M) == [i \in 1..K |-> [j \in 1..M |-> NaN]]

GridInit ==
    /\ \E n \in 0..MaxRows : rows \in [1..n -> GridRecords]
    /\ bg_n = 0
    /\ grid = <<>>
    /\ bg_mphi_vals = <<>>
    /\ bg_krot_vals = <<>>
    /\ PA_grid = <<>>
    /\ bg_i = 0
    /\ bg_j = 0
    /\ bg_pc = "collect"

\* Lines 91-92: grid[(m_phi, k_rot)].append(P_A) for the next record.
BgCollect ==
    /\ bg_pc = "collect"
    /\ bg_n < Len(rows)
    /\ LET rec == rows[bg_n + 1]
           key == <<rec.m_phi, rec.k_rot>>
       IN  grid' = IF key \in DOMAIN grid
                   THEN [grid EXCEPT ![key] = Append(@, rec.P_A)]
                   ELSE grid @@ (key :> <<rec.P_A>>)
    /\ bg_n' = bg_n + 1
    /\ UNCHANGED <<rows, bg_mphi_vals, bg_krot_vals, PA_grid, bg_i, bg_j, bg_pc>>
    /\ UNCHANGED notGrid

\* Lines 94-100: the axes and the grid of NaN.
BgAxes ==
    /\ bg_pc = "collect"
    /\ bg_n >= Len(rows)
    /\ bg_mphi_vals' = SortedSeq({key[1] : key \in DOMAIN grid})
    /\ bg_krot_vals' = SortedSeq({key[2] : key \in DOMAIN grid})
    /\ PA_grid' = FullNaN(Cardinality({key[2] : key \in DOMAIN grid}),
                          Cardinality({key[1] : key \in DOMAIN grid}))
    /\ bg_i' = 1
    /\ bg_j' = 1
    /\ bg_pc' = "fill"
    /\ UNCHANGED <<rows, bg_n, grid>>
    /\ UNCHANGED notGrid

\* Lines 102-106: one cell of the nested loop.
BgFill ==
    /\ bg_pc = "fill"
    /\ bg_i <= Len(bg_krot_vals)
    /\ LET key == <<bg_mphi_vals[bg_j], bg_krot_vals[bg_i]>>
           vals == IF key \in DOMAIN grid THEN grid[key] ELSE <<>>
       IN  PA_grid' = IF vals # <<>>
                      THEN [PA_grid EXCEPT ![bg_i][bg_j] = MeanOf(vals)]
                      ELSE PA_grid
    /\ IF bg_j < Len(bg_mphi_vals)
       THEN bg_j' = bg_j + 1 /\ bg_i' = bg_i
       ELSE bg_j' = 1 /\ bg_i' = bg_i + 1
    /\ UNCHANGED <<rows, bg_n, grid, bg_mphi_vals, bg_krot_vals, bg_pc>>
    /\ UNCHANGED notGrid

\* Line 108.
BgReturn ==
    /\ bg_pc = "fill"
    /\ bg_i > Len(bg_krot_vals)
    /\ bg_pc' = "done"
    /\ UNCHANGED <<rows, bg_n, grid, bg_mphi_vals, bg_krot_vals, PA_grid, bg_i, bg_j>>
    /\ UNCHANGED notGrid

GridNext == BgCollect \/ BgAxes \/ BgFill \/ BgReturn

GridIdle ==
    /\ rows = <<>>
    /\ bg_n = 0
    /\ grid = <<>>
    /\ bg_mphi_vals = <<>>
    /\ bg_krot_vals = <<>>
    /\ PA_grid = <<>>
    /\ bg_i = 0
    /\ bg_j = 0
    /\ bg_pc = "idle"

(***************************************************************************)
(* phase_sector_map.py: the categorical sector map.  q is in tenths,       *)
(* delta_phi_ini in hundredths of a radian.                                *)
(***************************************************************************)
Q_PLOT == 10         \* q_plot = 1.0
TARGET_INI == 1      \* target_ini = 0.01

\* The rows the summary CSV can hold.
MapMphi == {1, 2}
MapKrot == {1, 2}
MapQ == {10, 15}
MapDphi == {1, 157}
MapSectors == {"A", "B", "X"}

MapRecords ==
    [m_phi : MapMphi, k_rot : MapKrot, q : MapQ, delta_phi_ini : MapDphi,
     sector : MapSectors]

\* Line 82 with 0 as the default: code.get(sector, 0)
CodeOfDefaultZero(sector) ==
    CASE sector = "A" -> 0
      [] sector = "B" -> 1
      [] sector = "C" -> 2
      [] OTHER -> 0

\* Lines 73 and 82: code.get(sector, 2)
CodeOf(sector) ==
    CASE sector = "A" -> 0
      [] sector = "B" -> 1
      [] sector = "C" -> 2
      [] OTHER -> 2

\* list.index(x)
IndexOf(seq, x) == CHOOSE r \in 1..Len(seq) : seq[r] = x

\* Line 76: np.zeros((len(m_list), len(k_list)), dtype=int)
Zeros(M, K) == [i \in 1..M |-> [j \in 1..K |-> 0]]

MapInit ==
    /\ \E n \in 0..MaxMapRows : sm_rows \in [1..n -> MapRecords]
    /\ rows_q = <<>>
    /\ m_list = <<>>
    /\ k_list = <<>>
    /\ rows_map = <<>>
    /\ sm_grid = <<>>
    /\ sm_n = 0
    /\ sm_pc = "load"

\* Lines 49-53: the rows of q = 1.0, or an error when there is none.
SmSelectQ ==
    /\ sm_pc = "load"
    /\ rows_q' = SelectSeq(sm_rows, LAMBDA r : r.q = Q_PLOT)
    /\ sm_pc' = IF rows_q' = <<>> THEN "error" ELSE "slice"
    /\ UNCHANGED <<sm_rows, m_list, k_list, rows_map, sm_grid, sm_n>>
    /\ UNCHANGED notMap

\* Lines 56-76: the axes from every row of q = 1.0, the slice
\* delta_phi_ini = 0.01 (an error when it is empty), the grid of zeros.
SmSlice ==
    /\ sm_pc = "slice"
    /\ m_list' = SortedSeq({rows_q[r].m_phi : r \in 1..Len(rows_q)})
    /\ k_list' = SortedSeq({rows_q[r].k_rot : r \in 1..Len(rows_q)})
    /\ rows_map' = SelectSeq(rows_q, LAMBDA r : r.delta_phi_ini = TARGET_INI)
    /\ IF rows_map' = <<>>
       THEN sm_pc' = "error" /\ UNCHANGED sm_grid
       ELSE sm_pc' = "assign" /\ sm_grid' = Zeros(Len(m_list'), Len(k_list'))
    /\ sm_n' = 0
    /\ UNCHANGED <<sm_rows, rows_q>>
    /\ UNCHANGED notMap

\* Lines 78-82: the next row of the slice sets its cell.
SmAssign ==
    /\ sm_pc = "assign"
    /\ sm_n < Len(rows_map)
    /\ LET r == rows_map[sm_n + 1]
           i == IndexOf(m_list, r.m_phi)
           j == IndexOf(k_list, r.k_rot)
       IN  sm_grid' = [sm_grid EXCEPT ![i][j] = CodeOf(r.sector)]
    /\ sm_n' = sm_n + 1
    /\ UNCHANGED <<sm_rows, rows_q, m_list, k_list, rows_map, sm_pc>>
    /\ UNCHANGED notMap

\* Lines 88-117: the grid is drawn.
SmPlot ==
    /\ sm_pc = "assign"
    /\ sm_n >= Len(rows_map)
    /\ sm_pc' = "done"
    /\ UNCHANGED <<sm_rows, rows_q, m_list, k_list, rows_map, sm_grid, sm_n>>
    /\ UNCHANGED notMap

MapNext == SmSelectQ \/ SmSlice \/ SmAssign \/ SmPlot

MapIdle ==
    /\ sm_rows = <<>>
    /\ rows_q = <<>>
    /\ m_list = <<>>
    /\ k_list = <<>>
    /\ rows_map = <<>>
    /\ sm_grid = <<>>
    /\ sm_n = 0
    /\ sm_pc = "idle"

(***************************************************************************)
(* phase_sector_scan.py: classify_phase_trajectory(delta_phi_arr).         *)
(* Phases are in hundredths of a radian, pi is 3.14.                       *)
(***************************************************************************)
MIN_SAMPLES == 50    \* if n < 50
TAIL_FROM == 9       \* int(0.9 * n), in tenths
PI == 314            \* np.pi
TOL_CONV == 8        \* tol_conv = 0.08
TOL_PI == 25         \* tol_pi = 0.25

ScanLens == {0, 49, 50, 60}
ScanCuts == {1, 5, 6}
ScanVals == {-10, 0, 20, 289, 314, 339, 638}

ScanTrajs ==
    {Traj(n, v1, v2, c) : n \in ScanLens, v1 \in ScanVals, v2 \in ScanVals,
                          c \in ScanCuts}

\* Lines 57-58: np.mod(delta_phi_arr[int(0.9 * n):], 2.0 * np.pi)
ScanTailMod(arr) ==
    LET from == (TAIL_FROM * Len(arr)) \div 10
    IN  [k \in 1..(Len(arr) - from) |-> arr[from + k] % (2 * PI)]

\* Lines 60-75 with phi_mean <= pi - tol_pi for A.
ScanDecideNotStrict(t) ==
    IF StdLess(t, TOL_CONV) /\ ~ MeanGreater(t, PI - TOL_PI) THEN "A"
    ELSE IF StdLess(t, TOL_CONV) /\ MeanGreater(t, PI - TOL_PI)
            /\ MeanLess(t, PI + TOL_PI) THEN "B"
    ELSE "C"

\* Lines 60-75: A below pi - tol_pi, B within tol_pi of pi, both converged.
ScanDecide(t) ==
    IF StdLess(t, TOL_CONV) /\ MeanLess(t, PI - TOL_PI) THEN "A"
    ELSE IF StdLess(t, TOL_CONV) /\ MeanGreater(t, PI - TOL_PI)
            /\ MeanLess(t, PI + TOL_PI) THEN "B"
    ELSE "C"

classify_phase_trajectory(arr) ==
    IF Len(arr) < MIN_SAMPLES THEN "C" ELSE ScanDecide(ScanTailMod(arr))

ScanClassInit ==
    /\ delta_phi_arr \in ScanTrajs
    /\ phi_mod = <<>>
    /\ cp_ret = "none"
    /\ cp_pc = "call"

\* Lines 53-55: too short to classify.
CpShort ==
    /\ cp_pc = "call"
    /\ Len(delta_phi_arr) < MIN_SAMPLES
    /\ cp_ret' = "C"
    /\ cp_pc' = "done"
    /\ UNCHANGED <<delta_phi_arr, phi_mod>>
    /\ UNCHANGED notScanClass

\* Lines 57-58.
CpTail ==
    /\ cp_pc = "call"
    /\ Len(delta_phi_arr) >= MIN_SAMPLES
    /\ phi_mod' = ScanTailMod(delta_phi_arr)
    /\ cp_pc' = "stats"
    /\ UNCHANGED <<delta_phi_arr, cp_ret>>
    /\ UNCHANGED notScanClass

\* Lines 60-75.
CpDecide ==
    /\ cp_pc = "stats"
    /\ cp_ret' = ScanDecide(phi_mod)
    /\ cp_pc' = "done"
    /\ UNCHANGED <<delta_phi_arr, phi_mod>>
    /\ UNCHANGED notScanClass

ScanClassNext == CpShort \/ CpTail \/ CpDecide

ScanClassIdle ==
    /\ delta_phi_arr = <<>>
    /\ phi_mod = <<>>
    /\ cp_ret = "none"
    /\ cp_pc = "idle"

(***************************************************************************)
(* phase_sector_scan.py: the sweep (lines 82-169).  The parameters of the  *)
(* grid are in ten-thousandths (15708 is pi / 2); phases stay in           *)
(* hundredths of a radian.                                                 *)
(***************************************************************************)
\* Lines 82-91: the configured lists.
m_phi_list == <<2000, 5000, 10000, 20000, 30000>>

k_rot_list == <<0, 1000, 2000, 5000>>

q_list == <<10000>>

delta_phi_ini_list == <<100, 15708, 28274>>

\* The lists the model sweeps: the first entries of the configured ones.
SweepM == SubSeq(m_phi_list, 1, SweepNM)

SweepK == SubSeq(k_rot_list, 1, SweepNK)

SweepQ == q_list

SweepD == SubSeq(delta_phi_ini_list, 1, SweepND)

\* A grid point is the tuple of the four loop positions.
GridPoints ==
    (1..Len(SweepM)) \X (1..Len(SweepK)) \X (1..Len(SweepQ)) \X (1..Len(SweepD))

NoPoint == <<0, 0, 0, 0>>

FirstPoint == <<1, 1, 1, 1>>

\* Lines 114-117 taken with m_phi as the innermost loop.
AdvanceOuterFirst(idx) ==
    IF idx[1] < Len(SweepM) THEN <<idx[1] + 1, idx[2], idx[3], idx[4]>>
    ELSE IF idx[2] < Len(SweepK) THEN <<1, idx[2] + 1, idx[3], idx[4]>>
    ELSE IF idx[3] < Len(SweepQ) THEN <<1, 1, idx[3] + 1, idx[4]>>
    ELSE IF idx[4] < Len(SweepD) THEN <<1, 1, 1, idx[4] + 1>>
    ELSE NoPoint

\* Lines 114-117: the four nested loops; the innermost list moves first.
Advance(idx) ==
    IF idx[4] < Len(SweepD) THEN <<idx[1], idx[2], idx[3], idx[4] + 1>>
    ELSE IF idx[3] < Len(SweepQ) THEN <<idx[1], idx[2], idx[3] + 1, 1>>
    ELSE IF idx[2] < Len(SweepK) THEN <<idx[1], idx[2] + 1, 1, 1>>
    ELSE IF idx[1] < Len(SweepM) THEN <<idx[1] + 1, 1, 1, 1>>
    ELSE NoPoint

\* Line 142 with the format :.0f kept to two decimals: the parameter rounded
\* to a whole number, in hundredths.
FmtWhole(x) == ((x + 5000) \div 10000) * 100

\* Line 142, the format :.2f: the parameter in hundredths, rounded to the
\* nearest (no parameter of the lists lies halfway between two hundredths).
Fmt2(x) == (x + 50) \div 100

DigitChar(d) == <<"0", "1", "2", "3", "4", "5", "6", "7", "8", "9">>[d + 1]

RECURSIVE Digits(_)
\* The decimal digits of a whole number n >= 0.
Digits(n) ==
    IF n < 10 THEN <<DigitChar(n)>>
    ELSE Append(Digits(n \div 10), DigitChar(n % 10))

\* Line 142: f"{x:.2f}" as its characters, for x >= 0.
FixedTwo(x) ==
    LET h == Fmt2(x)
    IN  Digits(h \div 100) \o <<".", DigitChar((h \div 10) % 10),
                                DigitChar(h % 10)>>

\* Line 143: base_id.replace(".", "p")
ReplaceDots(str) == [i \in 1..Len(str) |-> IF str[i] = "." THEN "p" ELSE str[i]]

\* Lines 142-143: base_id, as its characters.
BaseId(m, k, q, d) ==
    ReplaceDots(<<"m">> \o FixedTwo(m) \o <<"_", "k">> \o FixedTwo(k)
                \o <<"_", "q">> \o FixedTwo(q) \o <<"_", "d">> \o FixedTwo(d))

\* Line 145: traj_filename = f"traj_{base_id}.npz"
TrajName(m, k, q, d) ==
    <<"t", "r", "a", "j", "_">> \o BaseId(m, k, q, d) \o <<".", "n", "p", "z">>

\* run_phase_evolution (phase_evolution_ode.py, lines 125-189) is
\* deterministic in its arguments.  What it does at a grid point is one of:
\* a full trajectory that settles near 0, near pi, or does not settle; a
\* trajectory cut short because solve_ivp gave up (sol.t is shorter than
\* t_eval, sol.success is not looked at); an exception raised by solve_ivp.
IntegOutcomes == {"A", "B", "C", "short", "raise"}

IntegTraj(tag) ==
    CASE tag = "A" -> Traj(60, 20, 20, 6)
      [] tag = "B" -> Traj(60, 0, 314, 6)
      [] tag = "C" -> Traj(60, 0, 638, 3)
      [] tag = "short" -> Traj(49, 20, 20, 1)
      [] OTHER -> <<>>

\* The integrator of a run: the same outcome everywhere but at one point.
Integrators ==
    {[base |-> b, at |-> p, special |-> s] :
        b \in {"A", "B", "C"}, p \in GridPoints \cup {NoPoint},
        s \in IntegOutcomes}

run_phase_evolution(integ, idx) ==
    IF integ.at = idx THEN integ.special ELSE integ.base

SumSq(s) == Sum([k \in 1..Len(s) |-> s[k] * s[k]])

\* Lines 133-136: mean and deviation of the tail modulo 2 pi; np.mean and
\* np.std of an empty tail are NaN.  The deviation is kept as its square.
TailStats(dphi_arr) ==
    LET t == ScanTailMod(dphi_arr)
        n == Len(t)
    IN  IF n = 0 THEN [phi_mean |-> NaN, phi_var |-> NaN]
        ELSE [phi_mean |-> Num(Sum(t), n),
              phi_var |-> Num(n * SumSq(t) - Sum(t) * Sum(t), n * n)]

\* The order of lines 149-169 with the row written before the archive.
StepAfterRowFirst(step) ==
    CASE step = "run" -> "row"
      [] step = "row" -> "save"
      [] step = "save" -> "next"

\* The order of lines 121-169: integrate and classify, np.savez, writerow.
StepAfter(step) ==
    CASE step = "run" -> "save"
      [] step = "save" -> "row"
      [] step = "row" -> "next"

SweepInit ==
    /\ sw_integ \in Integrators
    /\ sw_idx = FirstPoint
    /\ sw_res = <<>>
    /\ sw_sector = "none"
    /\ sw_stats = [phi_mean |-> NaN, phi_var |-> NaN]
    /\ sw_files = <<>>
    /\ sw_summary = <<>>
    /\ sw_pc = "run"

\* Lines 121-139: the integrator returns; tail statistics and sector.
SwRun ==
    /\ sw_pc = "run"
    /\ run_phase_evolution(sw_integ, sw_idx) # "raise"
    /\ sw_res' = IntegTraj(run_phase_evolution(sw_integ, sw_idx))
    /\ sw_stats' = TailStats(sw_res')
    /\ sw_sector' = classify_phase_trajectory(sw_res')
    /\ sw_pc' = StepAfter("run")
    /\ UNCHANGED <<sw_integ, sw_idx, sw_files, sw_summary>>
    /\ UNCHANGED notSweep

\* Lines 121-130: the integrator raises.  Nothing catches the exception:
\* the with block closes the summary and the script ends.
SwRaise ==
    /\ sw_pc = "run"
    /\ run_phase_evolution(sw_integ, sw_idx) = "raise"
    /\ sw_pc' = "aborted"
    /\ UNCHANGED <<sw_integ, sw_idx, sw_res, sw_sector, sw_stats, sw_files,
                   sw_summary>>
    /\ UNCHANGED notSweep

\* Lines 141-159: np.savez of the trajectory and its parameters under the
\* name of the grid point; an archive of that name is overwritten.
SwSave ==
    /\ sw_pc = "save"
    /\ LET m_phi == SweepM[sw_idx[1]]
           k_rot == SweepK[sw_idx[2]]
           q == SweepQ[sw_idx[3]]
           delta_phi_ini == SweepD[sw_idx[4]]
           archive == [delta_phi |-> sw_res, m_phi |-> m_phi, k_rot |-> k_rot,
                       q |-> q, delta_phi_ini |-> delta_phi_ini,
                       sector |-> sw_sector]
       IN  sw_files' = (TrajName(m_phi, k_rot, q, delta_phi_ini) :> archive)
                           @@ sw_files
    /\ sw_pc' = StepAfter("save")
    /\ UNCHANGED <<sw_integ, sw_idx, sw_res, sw_sector, sw_stats, sw_summary>>
    /\ UNCHANGED notSweep

\* Lines 161-169: writer.writerow.
SwRow ==
    /\ sw_pc = "row"
    /\ sw_summary' = Append(sw_summary,
          [m_phi |-> SweepM[sw_idx[1]], k_rot |-> SweepK[sw_idx[2]],
           q |-> SweepQ[sw_idx[3]], delta_phi_ini |-> SweepD[sw_idx[4]],
           sector |-> sw_sector,
           phi_mean_tail |-> sw_stats.phi_mean,
           phi_std_tail |-> sw_stats.phi_var,
           traj_file |-> TrajName(SweepM[sw_idx[1]], SweepK[sw_idx[2]],
                                  SweepQ[sw_idx[3]], SweepD[sw_idx[4]])])
    /\ sw_pc' = StepAfter("row")
    /\ UNCHANGED <<sw_integ, sw_idx, sw_res, sw_sector, sw_stats, sw_files>>
    /\ UNCHANGED notSweep

\* Lines 114-117: the next grid point.
SwNextPoint ==
    /\ sw_pc = "next"
    /\ Advance(sw_idx) # NoPoint
    /\ sw_idx' = Advance(sw_idx)
    /\ sw_pc' = "run"
    /\ UNCHANGED <<sw_integ, sw_res, sw_sector, sw_stats, sw_files, sw_summary>>
    /\ UNCHANGED notSweep

\* Lines 171-175: the loops are over.
SwFinish ==
    /\ sw_pc = "next"
    /\ Advance(sw_idx) = NoPoint
    /\ sw_pc' = "done"
    /\ UNCHANGED <<sw_integ, sw_idx, sw_res, sw_sector, sw_stats, sw_files,
                   sw_summary>>
    /\ UNCHANGED notSweep

SweepNext == SwRun \/ SwRaise \/ SwSave \/ SwRow \/ SwNextPoint \/ SwFinish

SweepIdle ==
    /\ sw_integ = [base |-> "A", at |-> NoPoint, special |-> "A"]
    /\ sw_idx = NoPoint
    /\ sw_res = <<>>
    /\ sw_sector = "none"
    /\ sw_stats = [phi_mean |-> NaN, phi_var |-> NaN]
    /\ sw_files = <<>>
    /\ sw_summary = <<>>
    /\ sw_pc = "idle"

(***************************************************************************)
(* compute_mphi_crit.py: read_sector_csvs(results_dir).  A CSV row is what *)
(* csv.DictReader hands over: for every column a cell, which is            *)
(*   "absent"  the header has no such column (the key is not in r),        *)
(*   "none"    the row is shorter than the header (the value is None),     *)
(*   "empty"   the empty string,                                           *)
(*   "text"    a string float() rejects,                                   *)
(*   "nan"     the string "nan",                                           *)
(*   "num"     a number.                                                   *)
(* P_A is in tenths, the counts N_A and N_total are plain numbers.         *)
(***************************************************************************)
Cell(kind, val) == [kind |-> kind, val |-> val]

Absent == Cell("absent", 0)

Columns == {"m_phi", "k_rot", "P_A", "N_total", "N_A"}

\* The headers of the CSV files found in the results directory.
Headers ==
    {{"m_phi", "k_rot", "P_A", "N_total", "N_A"},
     {"m_phi", "k_rot", "P_A"},
     {"m_phi", "P_A"},
     {"k_rot", "P_A"},
     {"m_phi", "k_rot", "N_total", "N_A"},
     {"m_phi", "k_rot"}}

\* The cells a column can hold when the header has it.
CellsOf(col) ==
    CASE col = "m_phi" -> {Cell("empty", 0), Cell("text", 0), Cell("num", 1)}
      [] col = "k_rot" -> {Cell("none", 0), Cell("text", 0), Cell("num", 1)}
      [] col = "P_A" -> {Cell("empty", 0), Cell("text", 0), Cell("nan", 0),
                         Cell("num", 4)}
      [] col = "N_total" -> {Cell("empty", 0), Cell("num", 0), Cell("num", 10)}
      [] col = "N_A" -> {Cell("text", 0), Cell("num", 4), Cell("num", 12)}

ColCells(header, col) == IF col \in header THEN CellsOf(col) ELSE {Absent}

CsvRows(header) ==
    [m_phi : ColCells(header, "m_phi"), k_rot : ColCells(header, "k_rot"),
     P_A : ColCells(header, "P_A"), N_total : ColCells(header, "N_total"),
     N_A : ColCells(header, "N_A")]

\* r.get(col, default)
Get(r, col, default) == IF r[col].kind = "absent" THEN default ELSE r[col]

\* float(x) returns: x is a float already, or a string float() accepts.
CanFloat(cell) == cell.kind \in {"num", "nan"}

\* The truth value of a cell: None and "" are false.
Truthy(cell) == cell.kind \in {"text", "nan", "num"}

\* float(r["P_A"]), in tenths.
FloatPA(cell) == IF cell.kind = "nan" THEN NaN ELSE Num(cell.val, 1)

\* Line 51: the default of r.get("k_rot", 0.0)
KrotDefault == Cell("num", 0)

\* Lines 46-79: what one row adds to rows, nothing or one record.
ParseRow(r) ==
    LET m_raw == Get(r, "m_phi", Cell("none", 0))
        k_raw == Get(r, "k_rot", KrotDefault)
        N_total_raw == Get(r, "N_total", Cell("none", 0))
        N_A_raw == Get(r, "N_A", Cell("none", 0))
    IN  IF ~ CanFloat(m_raw) \/ ~ CanFloat(k_raw) THEN <<>>
        ELSE IF r["P_A"].kind # "absent" /\ Truthy(r["P_A"])
        THEN IF CanFloat(r["P_A"])
             THEN <<[m_phi |-> m_raw.val, k_rot |-> k_raw.val,
                     P_A |-> FloatPA(r["P_A"])]>>
             ELSE <<>>
        ELSE IF ~ Truthy(N_total_raw) \/ ~ Truthy(N_A_raw) THEN <<>>
        ELSE IF ~ CanFloat(N_total_raw) \/ ~ CanFloat(N_A_raw) THEN <<>>
        ELSE IF N_total_raw.val > 0
        THEN <<[m_phi |-> m_raw.val, k_rot |-> k_raw.val,
                P_A |-> Num(10 * N_A_raw.val, N_total_raw.val)]>>
        ELSE <<>>

ReadInit ==
    /\ rd_nfiles \in 0..MaxFiles
    /\ rd_f = 0
    /\ rd_header = {}
    /\ rd_r = [c \in Columns |-> Absent]
    /\ rd_n = 0
    /\ rd_rows = <<>>
    /\ rd_pc = "glob"

\* Lines 32-33: no CSV file.
RdNoFiles ==
    /\ rd_pc = "glob"
    /\ rd_nfiles = 0
    /\ rd_pc' = "raised"
    /\ UNCHANGED <<rd_nfiles, rd_f, rd_header, rd_r, rd_n, rd_rows>>
    /\ UNCHANGED notRead

\* Lines 40-44: the next file is opened, DictReader takes its header.
RdOpen ==
    /\ rd_pc = "glob"
    /\ rd_f < rd_nfiles
    /\ rd_f' = rd_f + 1
    /\ rd_header' \in Headers
    /\ rd_pc' = "rows"
    /\ UNCHANGED <<rd_nfiles, rd_r, rd_n, rd_rows>>
    /\ UNCHANGED notRead

\* Lines 46-79: one row of the file.
RdRow ==
    /\ rd_pc = "rows"
    /\ rd_n < MaxCsvRows
    /\ rd_r' \in CsvRows(rd_header)
    /\ rd_rows' = rd_rows \o ParseRow(rd_r')
    /\ rd_n' = rd_n + 1
    /\ UNCHANGED <<rd_nfiles, rd_f, rd_header, rd_pc>>
    /\ UNCHANGED notRead

\* Line 46: the file has no more rows.
RdEndFile ==
    /\ rd_pc = "rows"
    /\ rd_pc' = "glob"
    /\ UNCHANGED <<rd_nfiles, rd_f, rd_header, rd_r, rd_n, rd_rows>>
    /\ UNCHANGED notRead

\* Lines 81-82.
RdReturn ==
    /\ rd_pc = "glob"
    /\ rd_nfiles > 0
    /\ rd_f = rd_nfiles
    /\ rd_pc' = "returned"
    /\ UNCHANGED <<rd_nfiles, rd_f, rd_header, rd_r, rd_n, rd_rows>>
    /\ UNCHANGED notRead

ReadNext == RdNoFiles \/ RdOpen \/ RdRow \/ RdEndFile \/ RdReturn

ReadIdle ==
    /\ rd_nfiles = 0
    /\ rd_f = 0
    /\ rd_header = {}
    /\ rd_r = [c \in Columns |-> Absent]
    /\ rd_n = 0
    /\ rd_rows = <<>>
    /\ rd_pc = "idle"

(***************************************************************************)
(* phase_sector_map_2D.py: read_rows(results_dir).  Rows and cells are as  *)
(* for read_sector_csvs; a record is the tuple (m_phi, k_rot, P_A), kept   *)
(* with the names build_grid gives to its three fields.                    *)
(***************************************************************************)
\* Line 47: the default of r.get("k_rot", 0.0)
RrKrotDefault == Cell("num", 0)

\* Lines 42-75: what one row adds to rows, nothing or one record.
ParseRowMap2D(r) ==
    LET m_raw == Get(r, "m_phi", Cell("none", 0))
        k_raw == Get(r, "k_rot", RrKrotDefault)
        N_total_raw == Get(r, "N_total", Cell("none", 0))
        N_A_raw == Get(r, "N_A", Cell("none", 0))
    IN  IF ~ CanFloat(m_raw) \/ ~ CanFloat(k_raw) THEN <<>>
        ELSE IF r["P_A"].kind # "absent" /\ Truthy(r["P_A"])
        THEN IF CanFloat(r["P_A"])
             THEN <<[m_phi |-> m_raw.val, k_rot |-> k_raw.val,
                     P_A |-> FloatPA(r["P_A"])]>>
             ELSE <<>>
        ELSE IF ~ Truthy(N_total_raw) \/ ~ Truthy(N_A_raw) THEN <<>>
        ELSE IF ~ CanFloat(N_total_raw) \/ ~ CanFloat(N_A_raw) THEN <<>>
        ELSE IF N_total_raw.val > 0
        THEN <<[m_phi |-> m_raw.val, k_rot |-> k_raw.val,
                P_A |-> Num(10 * N_A_raw.val, N_total_raw.val)]>>
        ELSE <<>>

ReadRowsInit ==
    /\ rr_nfiles \in 0..MaxFiles
    /\ rr_f = 0
    /\ rr_header = {}
    /\ rr_r = [c \in Columns |-> Absent]
    /\ rr_n = 0
    /\ rr_rows = <<>>
    /\ rr_pc = "glob"

\* Lines 28-29: no CSV file.
RrNoFiles ==
    /\ rr_pc = "glob"
    /\ rr_nfiles = 0
    /\ rr_pc' = "raised"
    /\ UNCHANGED <<rr_nfiles, rr_f, rr_header, rr_r, rr_n, rr_rows>>
    /\ UNCHANGED notReadRows

\* Lines 36-40: the next file is opened, DictReader takes its header.
RrOpen ==
    /\ rr_pc = "glob"
    /\ rr_f < rr_nfiles
    /\ rr_f' = rr_f + 1
    /\ rr_header' \in Headers
    /\ rr_pc' = "rows"
    /\ UNCHANGED <<rr_nfiles, rr_r, rr_n, rr_rows>>
    /\ UNCHANGED notReadRows

\* Lines 42-75: one row of the file.
RrRow ==
    /\ rr_pc = "rows"
    /\ rr_n < MaxCsvRows
    /\ rr_r' \in CsvRows(rr_header)
    /\ rr_rows' = rr_rows \o ParseRowMap2D(rr_r')
    /\ rr_n' = rr_n + 1
    /\ UNCHANGED <<rr_nfiles, rr_f, rr_header, rr_pc>>
    /\ UNCHANGED notReadRows

\* Line 42: the file has no more rows.
RrEndFile ==
    /\ rr_pc = "rows"
    /\ rr_pc' = "glob"
    /\ UNCHANGED <<rr_nfiles, rr_f, rr_header, rr_r, rr_n, rr_rows>>
    /\ UNCHANGED notReadRows

\* Lines 77-78.
RrReturn ==
    /\ rr_pc = "glob"
    /\ rr_nfiles > 0
    /\ rr_f = rr_nfiles
    /\ rr_pc' = "returned"
    /\ UNCHANGED <<rr_nfiles, rr_f, rr_header, rr_r, rr_n, rr_rows>>
    /\ UNCHANGED notReadRows

ReadRowsNext == RrNoFiles \/ RrOpen \/ RrRow \/ RrEndFile \/ RrReturn

ReadRowsIdle ==
    /\ rr_nfiles = 0
    /\ rr_f = 0
    /\ rr_header = {}
    /\ rr_r = [c \in Columns |-> Absent]
    /\ rr_n = 0
    /\ rr_rows = <<>>
    /\ rr_pc = "idle"

(***************************************************************************)
(* compute_mphi_crit.py: compute_PA_vs_mphi(rows).  P_A is in tenths; the  *)
(* deviation of a group is kept as its square.                             *)
(***************************************************************************)
AggMphi == {1, 2}
AggKrot == {0, 1}
AggPA == {NaN, Num(4, 1), Num(6, 1)}

AggRecords == [m_phi : AggMphi, k_rot : AggKrot, P_A : AggPA]

\* Line 94 without the test.
KeepsAll(P_A) == TRUE

\* Line 94: if not math.isnan(P_A)
Keeps(P_A) == ~ P_A.nan

\* Line 105: arr.mean(); NaN if the array holds one.
ArrMean(arr) ==
    IF \E r \in 1..Len(arr) : arr[r].nan THEN NaN
    ELSE Num(Sum([r \in 1..Len(arr) |-> arr[r].num]), Len(arr))

\* Line 106: arr.std(ddof=1) if len(arr) > 1 else 0.0, squared:
\* sum((x - mean)^2) / (n - 1) = (n * sum(x^2) - sum(x)^2) / (n * (n - 1))
ArrStd(arr) ==
    IF Len(arr) <= 1 THEN Num(0, 1)
    ELSE IF \E r \in 1..Len(arr) : arr[r].nan THEN NaN
    ELSE LET xs == [r \in 1..Len(arr) |-> arr[r].num]
             n == Len(arr)
         IN  Num(n * SumSq(xs) - Sum(xs) * Sum(xs), n * (n - 1))

AggInit ==
    /\ \E n \in 0..MaxAggRows : ag_rows \in [1..n -> AggRecords]
    /\ ag_n = 0
    /\ groups = <<>>
    /\ ag_mphi_vals = <<>>
    /\ ag_PA_means = <<>>
    /\ ag_PA_stds = <<>>
    /\ ag_pc = "collect"

\* Lines 92-95: the next record goes to the group of its m_phi.
AgCollect ==
    /\ ag_pc = "collect"
    /\ ag_n < Len(ag_rows)
    /\ LET rec == ag_rows[ag_n + 1]
       IN  groups' = IF ~ Keeps(rec.P_A) THEN groups
                     ELSE IF rec.m_phi \in DOMAIN groups
                     THEN [groups EXCEPT ![rec.m_phi] = Append(@, rec.P_A)]
                     ELSE groups @@ (rec.m_phi :> <<rec.P_A>>)
    /\ ag_n' = ag_n + 1
    /\ UNCHANGED <<ag_rows, ag_mphi_vals, ag_PA_means, ag_PA_stds, ag_pc>>
    /\ UNCHANGED notAgg

\* Lines 97-99: mphi_vals = sorted(groups.keys())
AgSort ==
    /\ ag_pc = "collect"
    /\ ag_n = Len(ag_rows)
    /\ ag_mphi_vals' = SortedSeq(DOMAIN groups)
    /\ ag_pc' = "stats"
    /\ UNCHANGED <<ag_rows, ag_n, groups, ag_PA_means, ag_PA_stds>>
    /\ UNCHANGED notAgg

\* Lines 103-106: mean and deviation of the next group.
AgStats ==
    /\ ag_pc = "stats"
    /\ Len(ag_PA_means) < Len(ag_mphi_vals)
    /\ LET arr == groups[ag_mphi_vals[Len(ag_PA_means) + 1]]
       IN  /\ ag_PA_means' = Append(ag_PA_means, ArrMean(arr))
           /\ ag_PA_stds' = Append(ag_PA_stds, ArrStd(arr))
    /\ UNCHANGED <<ag_rows, ag_n, groups, ag_mphi_vals, ag_pc>>
    /\ UNCHANGED notAgg

\* Line 108.
AgReturn ==
    /\ ag_pc = "stats"
    /\ Len(ag_PA_means) = Len(ag_mphi_vals)
    /\ ag_pc' = "done"
    /\ UNCHANGED <<ag_rows, ag_n, groups, ag_mphi_vals, ag_PA_means, ag_PA_stds>>
    /\ UNCHANGED notAgg

AggNext == AgCollect \/ AgSort \/ AgStats \/ AgReturn

AggIdle ==
    /\ ag_rows = <<>>
    /\ ag_n = 0
    /\ groups = <<>>
    /\ ag_mphi_vals = <<>>
    /\ ag_PA_means = <<>>
    /\ ag_PA_stds = <<>>
    /\ ag_pc = "idle"

(***************************************************************************)
(* compute_mphi_crit.py: main() and make_plot.  The results directory is   *)
(* the sequence of its CSV files, a file the sequence of its rows (all     *)
(* with the header m_phi, k_rot, P_A).  P_A is in tenths.                  *)
(***************************************************************************)
MainCsvRows ==
    [m_phi : {Cell("num", -1), Cell("num", 1), Cell("text", 0)},
     k_rot : {Cell("num", 1)},
     P_A : {Cell("num", 0), Cell("num", 10), Cell("empty", 0)},
     N_total : {Absent}, N_A : {Absent}]

MainFiles == UNION {[1..n -> MainCsvRows] : n \in 0..MaxMainRows}

MainDirs == {<<>>} \cup {<<file>> : file \in MainFiles}

RECURSIVE ReadFileFrom(_, _)
\* Lines 46-79 over the rows of one file, from row k on.
ReadFileFrom(file, k) ==
    IF k > Len(file) THEN <<>>
    ELSE ParseRow(file[k]) \o ReadFileFrom(file, k + 1)

RECURSIVE ReadFilesFrom(_, _)
\* Lines 40-79 over the files, from file f on.
ReadFilesFrom(files, f) ==
    IF f > Len(files) THEN <<>>
    ELSE ReadFileFrom(files[f], 1) \o ReadFilesFrom(files, f + 1)

\* Lines 35-82: rows of read_sector_csvs when there is a file.
read_sector_csvs(files) == ReadFilesFrom(files, 1)

\* Lines 90-95: groups[m], the responses of m_phi = m that are not NaN.
GroupOf(rs, m) ==
    LET kept == SelectSeq(rs, LAMBDA r : r.m_phi = m /\ Keeps(r.P_A))
    IN  [k \in 1..Len(kept) |-> kept[k].P_A]

\* Lines 89-108.
compute_PA_vs_mphi(rs) ==
    LET keys == {rs[k].m_phi : k \in {j \in 1..Len(rs) : Keeps(rs[j].P_A)}}
        ms == SortedSeq(keys)
    IN  [mphi_vals |-> ms,
         PA_means |-> [i \in 1..Len(ms) |-> ArrMean(GroupOf(rs, ms[i]))],
         PA_stds |-> [i \in 1..Len(ms) |-> ArrStd(GroupOf(rs, ms[i]))]]

\* Lines 120-124 for means kept as quotients: the pair (i, i + 1) brought
\* to one denominator, where the comparisons and the interpolation of
\* lines 124-131 are those of the integers.
PairAt(ms, pa, t, i) ==
    LET d1 == pa[i].den
        d2 == pa[i + 1].den
    IN  [m1 |-> ms[i], m2 |-> ms[i + 1],
         p1 |-> pa[i].num * d2, p2 |-> pa[i + 1].num * d1, t |-> t * d1 * d2]

\* Lines 115-133.
find_mphi_crit(mv, pm, t) ==
    LET idx_sort == ArgSort(mv)
        ms == Take(mv, idx_sort)
        pa == Take(pm, idx_sort)
        hits == {i \in 1..(Len(ms) - 1) :
                    LET c == PairAt(ms, pa, t, i)
                    IN  /\ IsCrossing(Sign(c.p1 - c.t), Sign(c.p2 - c.t))
                        /\ c.p2 # c.p1}
    IN  IF hits = {} THEN None
        ELSE LET c == PairAt(ms, pa, t, SetMin(hits))
             IN  Interpolate(c.m1, c.m2, c.p1, c.p2, c.t)

\* Lines 145 and 167: the truth value of mphi_crit: None and 0.0 are false.
IfMphiCrit(c) == ~ c.none /\ c.num # 0

MainInit ==
    /\ mn_dir \in MainDirs
    /\ mn_rows = <<>>
    /\ mn_stats = [mphi_vals |-> <<>>, PA_means |-> <<>>, PA_stds |-> <<>>]
    /\ mn_mphi_crit = None
    /\ mn_printed = "none"
    /\ mn_json = <<>>
    /\ mn_fig = "none"
    /\ mn_pc = "read"

\* Lines 163 and 32-33: no CSV file, read_sector_csvs raises and main ends.
MnReadFails ==
    /\ mn_pc = "read"
    /\ mn_dir = <<>>
    /\ mn_pc' = "failed"
    /\ UNCHANGED <<mn_dir, mn_rows, mn_stats, mn_mphi_crit, mn_printed,
                   mn_json, mn_fig>>
    /\ UNCHANGED notMain

\* Line 163.
MnRead ==
    /\ mn_pc = "read"
    /\ mn_dir # <<>>
    /\ mn_rows' = read_sector_csvs(mn_dir)
    /\ mn_pc' = "aggregate"
    /\ UNCHANGED <<mn_dir, mn_stats, mn_mphi_crit, mn_printed, mn_json, mn_fig>>
    /\ UNCHANGED notMain

\* Line 164.
MnAggregate ==
    /\ mn_pc = "aggregate"
    /\ mn_stats' = compute_PA_vs_mphi(mn_rows)
    /\ mn_pc' = "find"
    /\ UNCHANGED <<mn_dir, mn_rows, mn_mphi_crit, mn_printed, mn_json, mn_fig>>
    /\ UNCHANGED notMain

\* Line 165.
MnFind ==
    /\ mn_pc = "find"
    /\ mn_mphi_crit' = find_mphi_crit(mn_stats.mphi_vals, mn_stats.PA_means,
                                      TARGET_PA)
    /\ mn_pc' = "report"
    /\ UNCHANGED <<mn_dir, mn_rows, mn_stats, mn_printed, mn_json, mn_fig>>
    /\ UNCHANGED notMain

\* Lines 167-170: the result line.
MnReport ==
    /\ mn_pc = "report"
    /\ mn_printed' = IF IfMphiCrit(mn_mphi_crit) THEN "m_phi_crit"
                     ELSE "no crossing"
    /\ mn_pc' = "json"
    /\ UNCHANGED <<mn_dir, mn_rows, mn_stats, mn_mphi_crit, mn_json, mn_fig>>
    /\ UNCHANGED notMain

\* Lines 172-184: the summary JSON.
MnJson ==
    /\ mn_pc = "json"
    /\ mn_json' = <<[m_phi_vals |-> mn_stats.mphi_vals,
                     PA_means |-> mn_stats.PA_means,
                     PA_stds |-> mn_stats.PA_stds,
                     target_PA |-> TARGET_PA,
                     m_phi_crit |-> mn_mphi_crit]>>
    /\ mn_pc' = "plot"
    /\ UNCHANGED <<mn_dir, mn_rows, mn_stats, mn_mphi_crit, mn_printed, mn_fig>>
    /\ UNCHANGED notMain

\* Lines 187 and 140-155: the figure, with or without the critical line.
MnPlot ==
    /\ mn_pc = "plot"
    /\ mn_fig' = IF IfMphiCrit(mn_mphi_crit) THEN "with axvline"
                 ELSE "without axvline"
    /\ mn_pc' = "done"
    /\ UNCHANGED <<mn_dir, mn_rows, mn_stats, mn_mphi_crit, mn_printed, mn_json>>
    /\ UNCHANGED notMain

MainNext ==
    MnReadFails \/ MnRead \/ MnAggregate \/ MnFind \/ MnReport \/ MnJson
        \/ MnPlot

MainIdle ==
    /\ mn_dir = <<>>
    /\ mn_rows = <<>>
    /\ mn_stats = [mphi_vals |-> <<>>, PA_means |-> <<>>, PA_stds |-> <<>>]
    /\ mn_mphi_crit = None
    /\ mn_printed = "none"
    /\ mn_json = <<>>
    /\ mn_fig = "none"
    /\ mn_pc = "idle"

\* ------------------------------------------------------------------------
\* Specifications: one per script.
\* ------------------------------------------------------------------------
InitCrit ==
    /\ CritInit /\ FineClassIdle /\ FineIdle /\ ZoomIdle /\ MicroIdle /\
       GridIdle /\ MapIdle /\ ScanClassIdle /\ SweepIdle /\ ReadIdle /\
       ReadRowsIdle /\ AggIdle /\ MainIdle

SpecCrit == InitCrit /\ [][CritNext]_vars

InitFineClass ==
    /\ FineClassInit /\ CritIdle /\ FineIdle /\ ZoomIdle /\ MicroIdle /\
       GridIdle /\ MapIdle /\ ScanClassIdle /\ SweepIdle /\ ReadIdle /\
       ReadRowsIdle /\ AggIdle /\ MainIdle

SpecFineClass == InitFineClass /\ [][FineClassNext]_vars

InitFine ==
    /\ FineInit /\ CritIdle /\ FineClassIdle /\ ZoomIdle /\ MicroIdle /\
       GridIdle /\ MapIdle /\ ScanClassIdle /\ SweepIdle /\ ReadIdle /\
       ReadRowsIdle /\ AggIdle /\ MainIdle

SpecFine == InitFine /\ [][FineNext]_vars

InitZoom ==
    /\ ZoomInit /\ CritIdle /\ FineClassIdle /\ FineIdle /\ MicroIdle /\
       GridIdle /\ MapIdle /\ ScanClassIdle /\ SweepIdle /\ ReadIdle /\
       ReadRowsIdle /\ AggIdle /\ MainIdle

SpecZoom == InitZoom /\ [][ZoomNext]_vars

InitMicro ==
    /\ MicroInit /\ CritIdle /\ FineClassIdle /\ FineIdle /\ ZoomIdle /\
       GridIdle /\ MapIdle /\ ScanClassIdle /\ SweepIdle /\ ReadIdle /\
       ReadRowsIdle /\ AggIdle /\ MainIdle

SpecMicro == InitMicro /\ [][MicroNext]_vars

InitGrid ==
    /\ GridInit /\ CritIdle /\ FineClassIdle /\ FineIdle /\ ZoomIdle /\
       MicroIdle /\ MapIdle /\ ScanClassIdle /\ SweepIdle /\ ReadIdle /\
       ReadRowsIdle /\ AggIdle /\ MainIdle

SpecGrid == InitGrid /\ [][GridNext]_vars

InitMap ==
    /\ MapInit /\ CritIdle /\ FineClassIdle /\ FineIdle /\ ZoomIdle /\
       MicroIdle /\ GridIdle /\ ScanClassIdle /\ SweepIdle /\ ReadIdle /\
       ReadRowsIdle /\ AggIdle /\ MainIdle

SpecMap == InitMap /\ [][MapNext]_vars

InitScanClass ==
    /\ ScanClassInit /\ CritIdle /\ FineClassIdle /\ FineIdle /\ ZoomIdle
       /\ MicroIdle /\ GridIdle /\ MapIdle /\ SweepIdle /\ ReadIdle /\
       ReadRowsIdle /\ AggIdle /\ MainIdle

SpecScanClass == InitScanClass /\ [][ScanClassNext]_vars

InitSweep ==
    /\ SweepInit /\ CritIdle /\ FineClassIdle /\ FineIdle /\ ZoomIdle /\
       MicroIdle /\ GridIdle /\ MapIdle /\ ScanClassIdle /\ ReadIdle /\
       ReadRowsIdle /\ AggIdle /\ MainIdle

SpecSweep == InitSweep /\ [][SweepNext]_vars

InitRead ==
    /\ ReadInit /\ CritIdle /\ FineClassIdle /\ FineIdle /\ ZoomIdle /\
       MicroIdle /\ GridIdle /\ MapIdle /\ ScanClassIdle /\ SweepIdle /\
       ReadRowsIdle /\ AggIdle /\ MainIdle

SpecRead == InitRead /\ [][ReadNext]_vars

InitReadRows ==
    /\ ReadRowsInit /\ CritIdle /\ FineClassIdle /\ FineIdle /\ ZoomIdle
       /\ MicroIdle /\ GridIdle /\ MapIdle /\ ScanClassIdle /\ SweepIdle
       /\ ReadIdle /\ AggIdle /\ MainIdle

SpecReadRows == InitReadRows /\ [][ReadRowsNext]_vars

InitAgg ==
    /\ AggInit /\ CritIdle /\ FineClassIdle /\ FineIdle /\ ZoomIdle /\
       MicroIdle /\ GridIdle /\ MapIdle /\ ScanClassIdle /\ SweepIdle /\
       ReadIdle /\ ReadRowsIdle /\ MainIdle

SpecAgg == InitAgg /\ [][AggNext]_vars

InitMain ==
    /\ MainInit /\ CritIdle /\ FineClassIdle /\ FineIdle /\ ZoomIdle /\
       MicroIdle /\ GridIdle /\ MapIdle /\ ScanClassIdle /\ SweepIdle /\
       ReadIdle /\ ReadRowsIdle /\ AggIdle

SpecMain == InitMain /\ [][MainNext]_vars

\* Either sweep driver: phase_sector_scan.py or the micro-fine scan.
InitSweeps == InitSweep \/ InitMicro

SpecSweeps == InitSweeps /\ [][SweepNext \/ MicroNext]_vars

\* Either record reader: read_sector_csvs or read_rows.
InitReaders == InitRead \/ InitReadRows

SpecReaders == InitReaders /\ [][ReadNext \/ ReadRowsNext]_vars

(***************************************************************************)
(* Claims about find_mphi_crit, stated on its arguments.                   *)
(***************************************************************************)
\* Samples a and b are neighbours once the samples are sorted by m_phi.
Consecutive(a, b) ==
    /\ mphi_vals[a] < mphi_vals[b]
    /\ ~ \E c \in 1..Len(mphi_vals) :
            mphi_vals[a] < mphi_vals[c] /\ mphi_vals[c] < mphi_vals[b]

\* Samples a and b lie strictly on opposite sides of the target.
Opposite(a, b) ==
    \/ PA_means[a] < target /\ target < PA_means[b]
    \/ PA_means[b] < target /\ target < PA_means[a]

CrossingPairs ==
    {pr \in (1..Len(mphi_vals)) \X (1..Len(mphi_vals)) :
        Consecutive(pr[1], pr[2]) /\ Opposite(pr[1], pr[2])}

\* The crossing pair of lowest coordinate.
FirstCrossingPair ==
    CHOOSE pr \in CrossingPairs :
        \A other \in CrossingPairs : mphi_vals[pr[1]] <= mphi_vals[other[1]]

\* C1: find_mphi_crit returns None whenever no two consecutive samples
\* (sorted by m_phi) lie strictly on opposite sides of the target: empty
\* input, one sample, all above, all below, or touching the target only.
C1_NoCrossingNone ==
    (fc_pc = "done" /\ CrossingPairs = {}) => mphi_crit = None

C1_Witness ==
    /\ fc_pc = "done"
    /\ CrossingPairs = {}
    /\ mphi_crit = None
    /\ Len(mphi_vals) = 3
    /\ \E a, b \in 1..3 : PA_means[a] = target /\ PA_means[b] > target

\* C2: when a consecutive pair of strictly opposite sign exists, the result
\* is m1 + (target-p1)/(p2-p1)*(m2-m1) on the pair of lowest coordinate;
\* that pair has p1 # p2 and the result lies strictly between m1 and m2.
C2_FirstCrossingInterpolated ==
    (fc_pc = "done" /\ CrossingPairs # {}) =>
        LET a == FirstCrossingPair[1]
            b == FirstCrossingPair[2]
            m1 == mphi_vals[a]
            m2 == mphi_vals[b]
            p1 == PA_means[a]
            p2 == PA_means[b]
        IN  /\ p1 # p2
            /\ mphi_crit.none = FALSE
            /\ mphi_crit.den # 0
            /\ mphi_crit.num * (p2 - p1) =
                  (m1 * (p2 - p1) + (target - p1) * (m2 - m1)) * mphi_crit.den
            /\ RatLess(Rat(m1, 1), mphi_crit)
            /\ RatLess(mphi_crit, Rat(m2, 1))

\* Two crossings, the first one descending, on unsorted arguments.
C2_Witness ==
    /\ fc_pc = "done"
    /\ Cardinality(CrossingPairs) = 2
    /\ mphi_crit.none = FALSE
    /\ mphi_vals[1] > mphi_vals[2]
    /\ PA_means[FirstCrossingPair[1]] > target

\* The response rises strictly along m_phi from below the target to above it.
RisingThroughTarget ==
    /\ Len(mphi_vals) >= 2
    /\ \A a, b \in 1..Len(mphi_vals) :
          mphi_vals[a] < mphi_vals[b] => PA_means[a] < PA_means[b]
    /\ \E a, b \in 1..Len(mphi_vals) :
          PA_means[a] < target /\ target < PA_means[b]

\* C3: on a strictly increasing response that starts below the target and
\* ends above it, the result is a coordinate (not None) between the two
\* samples that bracket the target, also when one sample equals the target.
C3_RisingResponseHasCrossing ==
    (fc_pc = "done" /\ RisingThroughTarget) =>
        /\ mphi_crit.none = FALSE
        /\ \E a, b \in 1..Len(mphi_vals) :
              /\ Consecutive(a, b)
              /\ PA_means[a] <= target /\ target <= PA_means[b]
              /\ ~ RatLess(mphi_crit, Rat(mphi_vals[a], 1))
              /\ ~ RatLess(Rat(mphi_vals[b], 1), mphi_crit)

(***************************************************************************)
(* Claims about the fine boundary scan.                                    *)
(***************************************************************************)
\* The labels are A up to position p and C after it.
SplitsAt(sl, p) ==
    /\ \A j \in 1..Len(sl) : j <= p => sl[j] = "A"
    /\ \A j \in 1..Len(sl) : j > p => sl[j] = "C"

AThenC(sl) == \E p \in 1..(Len(sl) - 1) : SplitsAt(sl, p)

\* The boundary points recorded for row r.
PointsOfRow(r) ==
    {i \in 1..Len(boundary_points) : boundary_points[i][1] = m_values[r]}

\* C4: a row records a boundary point iff its labels along ascending k_rot
\* are one or more A followed by one or more C; the point is the midpoint of
\* the k_rot of the last A and of the first C, which are adjacent samples.
\* All-A, all-C and interleaved rows record nothing; no row records two.
C4_BoundaryIffAThenC ==
    (fs_pc = "rowend") =>
        /\ \A r \in 1..NM : Cardinality(PointsOfRow(r)) <= 1
        /\ \A r \in (fs_m + 1)..NM : PointsOfRow(r) = {}
        /\ AThenC(sector_list) <=> PointsOfRow(fs_m) # {}
        /\ \A p \in 1..(Len(sector_list) - 1) :
              SplitsAt(sector_list, p) =>
                 \A i \in PointsOfRow(fs_m) :
                    2 * boundary_points[i][2] = k_values[p] + k_values[p + 1]

\* The first row recorded nothing, the second row is A A C..C.
C4_Witness ==
    /\ fs_pc = "rowend"
    /\ fs_m = 2
    /\ SplitsAt(sector_list, 2)
    /\ boundary_points = <<<<m_values[2], 3>>>>

(***************************************************************************)
(* Claims about the two-way classifier of the fine scan.                   *)
(***************************************************************************)
\* The first of the last 200 samples.
Last200From == IF Len(phi_array) > 200 THEN Len(phi_array) - 199 ELSE 1

Last200Count == Len(phi_array) - Last200From + 1

Last200Sum == SumRange(phi_array, Last200From, Len(phi_array))

Last200SumSq ==
    SumRange([k \in 1..Len(phi_array) |-> phi_array[k] * phi_array[k]],
             Last200From, Len(phi_array))

\* n^2 * variance of the last 200 samples
Last200Var2 == Last200Count * Last200SumSq - Last200Sum * Last200Sum

\* C10: the classifier returns only A or C; A iff the mean of the last 200
\* samples is strictly below 0.5 (5 tenths) and their standard deviation is
\* strictly below 0.1 (1 tenth); a mean of exactly 0.5 or a deviation of
\* exactly 0.1 gives C.
C10_TwoWayClassifier ==
    (cs_pc = "done") =>
        /\ cs_ret \in {"A", "C"}
        /\ cs_ret = "A" <=>
              /\ Last200Count > 0
              /\ Last200Sum < 5 * Last200Count
              /\ Last200Var2 < 1 * Last200Count * Last200Count

\* A tail behind a longer array whose deviation is exactly 0.1.
C10_Witness ==
    /\ cs_pc = "done"
    /\ cs_ret = "C"
    /\ Len(phi_array) = 300
    /\ Last200Sum < 5 * Last200Count
    /\ Last200Var2 = Last200Count * Last200Count

(***************************************************************************)
(* Claims about the zoom boundary extraction.                              *)
(***************************************************************************)
\* The row just processed.
ZoomRowM == zm_m_values[zm_i]

\* The points recorded for the row just processed, in order.
ZoomRowPoints == SelectSeq(zm_boundary_points, LAMBDA pt : pt[1] = ZoomRowM)

\* The adjacent pairs of the sorted row whose labels are A and C.
ZoomFlagged ==
    {j \in 1..(Len(df_m) - 1) :
        {df_m[j].sector, df_m[j + 1].sector} = {"A", "C"}}

\* df_m holds the records of the row, each as often as the data does,
\* ascending in Delta_phi_ini.
ZoomRowSorted ==
    /\ \A rec \in ZoomRecords :
          Cardinality({j \in 1..Len(df_m) : df_m[j] = rec}) =
             IF rec.m_phi = ZoomRowM
             THEN Cardinality({r \in 1..Len(data) : data[r] = rec})
             ELSE 0
    /\ \A j \in 1..(Len(df_m) - 1) :
          df_m[j].Delta_phi_ini <= df_m[j + 1].Delta_phi_ini

\* C5: for each m_phi, the records sorted by Delta_phi_ini give exactly one
\* boundary point (m_phi, midpoint of the two Delta_phi_ini) per adjacent
\* pair whose labels are {A, C} in either order, in order, and none for any
\* other pair (A-B, B-C, equal labels, a label outside A/B/C).
C5_OnePointPerACPair ==
    (zm_pc = "rows" /\ zm_i >= 1) =>
        /\ ZoomRowSorted
        /\ Len(ZoomRowPoints) = Cardinality(ZoomFlagged)
        /\ \A j \in ZoomFlagged :
              LET rank == Cardinality({h \in ZoomFlagged : h <= j})
              IN  /\ ZoomRowPoints[rank][1] = df_m[j].m_phi
                  /\ 2 * ZoomRowPoints[rank][2] =
                        df_m[j].Delta_phi_ini + df_m[j + 1].Delta_phi_ini
        /\ \A i \in 1..Len(zm_boundary_points) :
              \E r \in 1..zm_i : zm_boundary_points[i][1] = zm_m_values[r]

\* A row [A, C, C] at three distinct Delta_phi_ini gave one point.
C5_Witness ==
    /\ zm_pc = "rows"
    /\ zm_i = 1
    /\ Len(df_m) = 3
    /\ df_m[1].sector = "A" /\ df_m[2].sector = "C" /\ df_m[3].sector = "C"
    /\ df_m[1].Delta_phi_ini < df_m[2].Delta_phi_ini
    /\ df_m[2].Delta_phi_ini < df_m[3].Delta_phi_ini
    /\ data[1].sector = "C"
    /\ zm_boundary_points = <<<<df_m[1].m_phi, 1>>>>

(***************************************************************************)
(* Claims about the micro-fine scan.                                       *)
(***************************************************************************)
\* The pairs of consecutive rows of the file that lie in one m_phi row and
\* differ in label, by the position of the earlier row.
MicroFlagged ==
    {j \in 1..(Len(outfile) - 1) :
        /\ outfile[j].m_phi = outfile[j + 1].m_phi
        /\ outfile[j].sector # outfile[j + 1].sector}

\* C6: after the sweep, boundary_points holds exactly one entry per pair of
\* consecutive k_rot samples of one m_phi row whose labels differ (any
\* change), with the row's m_phi and the k_rot of the later sample; the
\* first sample of a row is never compared with the row before.
C6_OneEntryPerLabelChange ==
    (mf_pc = "done") =>
        /\ Len(mf_boundary_points) = Cardinality(MicroFlagged)
        /\ \A j \in MicroFlagged :
              LET rank == Cardinality({h \in MicroFlagged : h <= j})
              IN  /\ outfile[j + 1].k_rot = outfile[j].k_rot + 1
                  /\ mf_boundary_points[rank] =
                        <<outfile[j + 1].m_phi, outfile[j + 1].k_rot>>

\* The label changes from the first row to the second (no entry) and from A
\* to B inside the second (one entry).
C6_Witness ==
    /\ mf_pc = "done"
    /\ outfile[MicroNK].sector = "C"
    /\ outfile[MicroNK + 1].sector = "A"
    /\ outfile[MicroNK + 2].sector = "B"
    /\ mf_boundary_points = <<<<mf_m_values[2], mf_k_values[2]>>>>

(***************************************************************************)
(* Claims about build_grid.                                                *)
(***************************************************************************)
\* The records at the coordinates of cell [i, j].
RecordsAt(i, j) ==
    {r \in 1..Len(rows) :
        rows[r].m_phi = bg_mphi_vals[j] /\ rows[r].k_rot = bg_krot_vals[i]}

Ascending(seq) == \A a, b \in 1..Len(seq) : a < b => seq[a] < seq[b]

\* C7: the axes are the ascending distinct m_phi and k_rot of the records;
\* cell [i, j] is the arithmetic mean of every P_A recorded at exactly
\* (mphi_vals[j], krot_vals[i]) and is NaN, not 0, where nothing was recorded.
C7_GridOfMeans ==
    (bg_pc = "done") =>
        /\ Ascending(bg_mphi_vals)
        /\ Ascending(bg_krot_vals)
        /\ {bg_mphi_vals[j] : j \in 1..Len(bg_mphi_vals)} =
              {rows[r].m_phi : r \in 1..Len(rows)}
        /\ {bg_krot_vals[i] : i \in 1..Len(bg_krot_vals)} =
              {rows[r].k_rot : r \in 1..Len(rows)}
        /\ Len(PA_grid) = Len(bg_krot_vals)
        /\ \A i \in 1..Len(bg_krot_vals) :
              /\ Len(PA_grid[i]) = Len(bg_mphi_vals)
              /\ \A j \in 1..Len(bg_mphi_vals) :
                    LET at == RecordsAt(i, j)
                        cell == PA_grid[i][j]
                        total == Sum([r \in 1..Len(rows) |->
                                        IF r \in at THEN rows[r].P_A.num ELSE 0])
                    IN  IF at = {} \/ \E r \in at : rows[r].P_A.nan
                        THEN cell.nan
                        ELSE /\ ~ cell.nan
                             /\ cell.den # 0
                             /\ cell.num * Cardinality(at) = total * cell.den

\* 0.4 and 0.6 at one cell give 0.5, and a cell of the 2 x 2 grid that no
\* record names is NaN.
C7_Witness ==
    /\ bg_pc = "done"
    /\ Len(bg_mphi_vals) = 2 /\ Len(bg_krot_vals) = 2
    /\ rows[1].P_A = Num(4, 1) /\ rows[2].P_A = Num(6, 1)
    /\ RecordsAt(1, 1) = {1, 2}
    /\ PA_grid[1][1] = Num(10, 2)
    /\ RecordsAt(1, 2) = {}
    /\ PA_grid[1][2] = NaN

(***************************************************************************)
(* Claims about the categorical sector map.                                *)
(***************************************************************************)
\* The rows of the plotted slice at the coordinates of cell [i, j].
SliceRowsAt(i, j) ==
    {r \in 1..Len(sm_rows) :
        /\ sm_rows[r].q = 10
        /\ sm_rows[r].delta_phi_ini = 1
        /\ sm_rows[r].m_phi = m_list[i]
        /\ sm_rows[r].k_rot = k_list[j]}

\* C8: a cell of the map for which the plotted slice (q = 1.0,
\* delta_phi_ini = 0.01) holds no record is flagged as no data and never
\* holds the code of a valid sector (0 = A, 1 = B, 2 = C).
C8_MissingCellIsNoData ==
    (sm_pc = "done") =>
        \A i \in 1..Len(m_list) : \A j \in 1..Len(k_list) :
            SliceRowsAt(i, j) = {} => sm_grid[i][j] \notin {0, 1, 2}

(***************************************************************************)
(* Claims about classify_phase_trajectory.                                 *)
(***************************************************************************)
\* The samples from index floor(0.9 * n) on, modulo 2 pi (628).
TailFrom == (9 * Len(delta_phi_arr)) \div 10

TailCount == Len(delta_phi_arr) - TailFrom

TailSum ==
    SumRange([k \in 1..Len(delta_phi_arr) |-> delta_phi_arr[k] % 628],
             TailFrom + 1, Len(delta_phi_arr))

TailSumSq ==
    SumRange([k \in 1..Len(delta_phi_arr) |->
                 (delta_phi_arr[k] % 628) * (delta_phi_arr[k] % 628)],
             TailFrom + 1, Len(delta_phi_arr))

\* n^2 * variance of the tail
TailVar2 == TailCount * TailSumSq - TailSum * TailSum

\* std < 0.08
TailConverged == TailVar2 < 8 * 8 * TailCount * TailCount

\* std < 0.08 and mean < pi - 0.25
TailIsA == TailConverged /\ TailSum < (314 - 25) * TailCount

\* std < 0.08 and |mean - pi| < 0.25
TailIsB ==
    /\ TailConverged
    /\ (314 - 25) * TailCount < TailSum
    /\ TailSum < (314 + 25) * TailCount

\* C9: fewer than 50 samples give C; otherwise, on the samples from index
\* floor(0.9*n) on, modulo 2 pi, A iff std < 0.08 and mean < pi - 0.25,
\* B iff std < 0.08 and |mean - pi| < 0.25, C in every other case.  The
\* comparisons are strict and the A and B conditions exclude each other.
C9_ThreeWayClassifier ==
    (cp_pc = "done") =>
        /\ cp_ret \in {"A", "B", "C"}
        /\ Len(delta_phi_arr) < 50 => cp_ret = "C"
        /\ Len(delta_phi_arr) >= 50 =>
              /\ cp_ret = "A" <=> TailIsA
              /\ cp_ret = "B" <=> TailIsB
              /\ cp_ret = "C" <=> (~ TailIsA /\ ~ TailIsB)
              /\ ~ (TailIsA /\ TailIsB)

\* Fifty samples whose tail has a deviation of exactly 0.08 and a small
\* mean: C by the strict comparison.
C9_Witness ==
    /\ cp_pc = "done"
    /\ cp_ret = "C"
    /\ Len(delta_phi_arr) = 50
    /\ TailVar2 = 8 * 8 * TailCount * TailCount
    /\ TailSum < (314 - 25) * TailCount

(***************************************************************************)
(* Claims about the sweep drivers: phase_sector_scan.py and the micro-fine *)
(* scan.                                                                   *)
(***************************************************************************)
\* The place of a grid point in the lexicographic order of the product of
\* the four lists, the first list being the most significant.
LexRank(p) ==
    ((((p[1] - 1) * Len(SweepK) + (p[2] - 1)) * Len(SweepQ) + (p[3] - 1))
        * Len(SweepD)) + p[4]

SweepSize == Len(SweepM) * Len(SweepK) * Len(SweepQ) * Len(SweepD)

RowIsPoint(row, p) ==
    /\ row.m_phi = SweepM[p[1]]
    /\ row.k_rot = SweepK[p[2]]
    /\ row.q = SweepQ[p[3]]
    /\ row.delta_phi_ini = SweepD[p[4]]

\* The integrator fails at a grid point: it raises or gives up early.
FailsAt(p) == run_phase_evolution(sw_integ, p) \in {"short", "raise"}

AllIntegrationsSucceed == \A p \in GridPoints : ~ FailsAt(p)

MicroRank(r, j) == (r - 1) * MicroNK + j

\* C11: when every integration succeeds, the rows a sweep has written are
\* the grid points in lexicographic (nested loop) order, each point once:
\* the r-th summary row of phase_sector_scan is the r-th tuple of the product
\* of its four lists, and the finished sweep has one row per tuple; the
\* r-th row of the micro-fine CSV is the r-th (m_phi, k_rot) pair, and the
\* finished scan has one row per pair.
C11_OneRecordPerGridPoint ==
    /\ AllIntegrationsSucceed =>
          /\ Len(sw_summary) <= SweepSize
          /\ \A p \in GridPoints :
                LexRank(p) <= Len(sw_summary) =>
                    RowIsPoint(sw_summary[LexRank(p)], p)
          /\ sw_pc = "done" => Len(sw_summary) = SweepSize
    /\ Len(outfile) <= MicroNM * MicroNK
    /\ \A r \in 1..MicroNM : \A j \in 1..MicroNK :
          MicroRank(r, j) <= Len(outfile) =>
              /\ outfile[MicroRank(r, j)].m_phi = mf_m_values[r]
              /\ outfile[MicroRank(r, j)].k_rot = mf_k_values[j]
    /\ mf_pc = "done" => Len(outfile) = MicroNM * MicroNK

\* The sweep of phase_sector_scan is over, no integration failed, and the
\* summary holds a row for the last grid point.
C11_Witness ==
    /\ sw_pc = "done"
    /\ AllIntegrationsSucceed
    /\ Len(sw_summary) = SweepSize
    /\ SweepSize > 1
    /\ RowIsPoint(sw_summary[SweepSize],
                  <<Len(SweepM), Len(SweepK), Len(SweepQ), Len(SweepD)>>)

HasRow(p) == \E r \in 1..Len(sw_summary) : RowIsPoint(sw_summary[r], p)

\* C12: an integrator failure at one grid point never ends the sweep: the
\* sweep is never left aborted, and when it is over every grid point where
\* the integrator did not fail has its summary row while a point where it
\* failed has none (the summary has no column that could flag a failure).
C12_FailureDoesNotEndSweep ==
    /\ sw_pc # "aborted"
    /\ sw_pc = "done" =>
          \A p \in GridPoints : HasRow(p) <=> ~ FailsAt(p)

\* C20: every summary row written so far names a trajectory archive that
\* np.savez has already written, in every state of the sweep, the state left
\* by an abort at a later grid point included.
C20_RowNamesSavedTrajectory ==
    \A r \in 1..Len(sw_summary) : sw_summary[r].traj_file \in DOMAIN sw_files

\* The sweep was aborted by the integrator after rows had been written.
C20_Witness ==
    /\ sw_pc = "aborted"
    /\ Len(sw_summary) >= 1
    /\ sw_summary[Len(sw_summary)].traj_file \in DOMAIN sw_files

(***************************************************************************)
(* Claims about the record readers, stated on the row just read.           *)
(***************************************************************************)
\* A cell that holds no number: no such column, a short row, an empty or a
\* non-numeric string.
NoNumber(cell) == cell.kind \in {"absent", "none", "empty", "text"}

LacksCoordinate(r) == NoNumber(r["m_phi"]) \/ NoNumber(r["k_rot"])

\* C13: a CSV row that lacks m_phi or k_rot (column absent, empty or
\* non-numeric) contributes no record, in read_sector_csvs and in read_rows:
\* reading such a row leaves rows as it was.
C13_RowWithoutCoordinatesSkipped ==
    [][/\ (rd_n' = rd_n + 1 /\ LacksCoordinate(rd_r')) => rd_rows' = rd_rows
       /\ (rr_n' = rr_n + 1 /\ LacksCoordinate(rr_r')) => rr_rows' = rr_rows
      ]_vars

\* The row gives no usable P_A cell: the readers turn to N_A / N_total.
UsesCounts(r) == ~ (r["P_A"].kind # "absent" /\ Truthy(r["P_A"]))

\* A response in tenths that lies in [0, 1].
InUnitInterval(pa) ==
    /\ ~ pa.nan
    /\ pa.den > 0
    /\ 0 <= pa.num
    /\ pa.num <= 10 * pa.den

CountsRowOk(r, before, after) ==
    /\ UsesCounts(r) /\ Len(after) > Len(before) =>
          InUnitInterval(after[Len(after)].P_A)
    /\ UsesCounts(r) /\ r["N_total"].kind = "num" /\ r["N_total"].val <= 0 =>
          after = before

\* C14: a record whose P_A the readers derive as N_A / N_total has P_A in
\* [0, 1], and a row with N_total <= 0 yields no record.
C14_CountsResponseInUnitInterval ==
    [][/\ rd_n' = rd_n + 1 => CountsRowOk(rd_r', rd_rows, rd_rows')
       /\ rr_n' = rr_n + 1 => CountsRowOk(rr_r', rr_rows, rr_rows')
      ]_vars

(***************************************************************************)
(* Claims about NaN responses in build_grid.                               *)
(***************************************************************************)
\* The records at cell [i, j] whose response is a number.
ValidRecordsAt(i, j) == {r \in RecordsAt(i, j) : ~ rows[r].P_A.nan}

\* C15: build_grid leaves NaN responses out of the aggregation: a cell with
\* at least one record that is not NaN holds the mean of those records, so a
\* NaN record at the same (m_phi, k_rot) changes nothing.
C15_NaNExcludedFromCellMean ==
    (bg_pc = "done") =>
        \A i \in 1..Len(bg_krot_vals) : \A j \in 1..Len(bg_mphi_vals) :
            LET valid == ValidRecordsAt(i, j)
                cell == PA_grid[i][j]
                total == Sum([r \in 1..Len(rows) |->
                                IF r \in valid THEN rows[r].P_A.num ELSE 0])
            IN  valid # {} =>
                    /\ ~ cell.nan
                    /\ cell.den # 0
                    /\ cell.num * Cardinality(valid) = total * cell.den

(***************************************************************************)
(* Claims about compute_PA_vs_mphi, stated on its argument.                *)
(***************************************************************************)
\* The records of one m_phi whose response is a number, whatever k_rot.
ValidOf(m) == {r \in 1..Len(ag_rows) : ag_rows[r].m_phi = m /\ ~ ag_rows[r].P_A.nan}

ValidSum(m) ==
    Sum([r \in 1..Len(ag_rows) |->
            IF r \in ValidOf(m) THEN ag_rows[r].P_A.num ELSE 0])

\* C16: compute_PA_vs_mphi returns three sequences of one length, with one
\* entry per m_phi that has a response which is not NaN, in strictly
\* ascending m_phi; the mean is that of the m_phi's responses that are not
\* NaN over every k_rot, and the deviation of a single sample is 0.
C16_GroupMeansByMphi ==
    (ag_pc = "done") =>
        /\ Len(ag_PA_means) = Len(ag_mphi_vals)
        /\ Len(ag_PA_stds) = Len(ag_mphi_vals)
        /\ Ascending(ag_mphi_vals)
        /\ {ag_mphi_vals[i] : i \in 1..Len(ag_mphi_vals)} =
              {m \in AggMphi : ValidOf(m) # {}}
        /\ \A i \in 1..Len(ag_mphi_vals) :
              LET m == ag_mphi_vals[i]
                  mean == ag_PA_means[i]
              IN  /\ ~ mean.nan
                  /\ mean.den # 0
                  /\ mean.num * Cardinality(ValidOf(m)) = ValidSum(m) * mean.den
                  /\ Cardinality(ValidOf(m)) = 1 =>
                        ~ ag_PA_stds[i].nan /\ ag_PA_stds[i].num = 0

\* m_phi = 1 has 0.4 at k_rot = 0 and 0.6 at k_rot = 1: its mean is 0.5;
\* m_phi = 2 has only a NaN and is left out.
C16_Witness ==
    /\ ag_pc = "done"
    /\ ag_rows = <<[m_phi |-> 2, k_rot |-> 0, P_A |-> NaN],
                   [m_phi |-> 1, k_rot |-> 0, P_A |-> Num(4, 1)],
                   [m_phi |-> 1, k_rot |-> 1, P_A |-> Num(6, 1)]>>
    /\ ag_mphi_vals = <<1>>
    /\ ag_PA_means = <<Num(10, 2)>>

(***************************************************************************)
(* Claims about main of compute_mphi_crit.py.                              *)
(***************************************************************************)
\* The directory gives nothing to analyse: no CSV file, or no valid record.
EmptyInput == mn_dir = <<>> \/ read_sector_csvs(mn_dir) = <<>>

\* C17: with an empty input set (no CSV file, or CSV files without a valid
\* record) main fails at once: it never goes on to the aggregation and
\* writes neither the summary JSON nor the figure.
C17_EmptyInputIsFatal ==
    EmptyInput =>
        /\ mn_pc \in {"read", "failed"}
        /\ mn_json = <<>>
        /\ mn_fig = "none"

\* C18: the report says "no crossing" exactly when find_mphi_crit returned
\* None, and the figure lacks the critical line exactly then: every numeric
\* m_phi_crit, 0.0 included, is printed and drawn.
C18_NoCrossingIffNone ==
    /\ mn_printed # "none" =>
          (mn_printed = "no crossing" <=> mn_mphi_crit.none)
    /\ mn_fig # "none" =>
          (mn_fig = "without axvline" <=> mn_mphi_crit.none)

(***************************************************************************)
(* Claims about duplicate records and unknown labels in the sector map.    *)
(***************************************************************************)
\* The last record of the plotted slice at cell [i, j], in file order.
LastSliceRowAt(i, j) == sm_rows[SetMax(SliceRowsAt(i, j))]

\* C19: a cell of the sector map that several records of the plotted slice
\* share holds the code of the last of them in file order, and a record
\* whose label is not A, B or C is stored as 2, the code of C.
C19_LastRecordWins ==
    (sm_pc = "done") =>
        \A i \in 1..Len(m_list) : \A j \in 1..Len(k_list) :
            SliceRowsAt(i, j) # {} =>
                LET sector == LastSliceRowAt(i, j).sector
                IN  sm_grid[i][j] = IF sector = "A" THEN 0
                                    ELSE IF sector = "B" THEN 1
                                    ELSE 2

\* Two records of the slice at one cell, labelled B and then X: the cell
\* holds 2.
C19_Witness ==
    /\ sm_pc = "done"
    /\ Len(sm_rows) = 2
    /\ sm_rows[1] = [m_phi |-> 1, k_rot |-> 1, q |-> 10, delta_phi_ini |-> 1,
                     sector |-> "B"]
    /\ sm_rows[2] = [m_phi |-> 1, k_rot |-> 1, q |-> 10, delta_phi_ini |-> 1,
                     sector |-> "X"]
    /\ sm_grid = <<<<2>>>>

(***************************************************************************)
(* Claims about the trajectory identifier of phase_sector_scan.py.         *)
(***************************************************************************)
\* Every grid point of the configured lists, as the four parameters.
ConfiguredGrid ==
    {<<m_phi_list[a], k_rot_list[b], q_list[c], delta_phi_ini_list[e]>> :
        a \in 1..Len(m_phi_list), b \in 1..Len(k_rot_list),
        c \in 1..Len(q_list), e \in 1..Len(delta_phi_ini_list)}

IdOf(g) == BaseId(g[1], g[2], g[3], g[4])

HasDot(str) == \E i \in 1..Len(str) : str[i] = "."

ConfiguredIdsHaveNoDot == \A g \in ConfiguredGrid : ~ HasDot(IdOf(g))

ConfiguredIdsDistinct ==
    Cardinality({IdOf(g) : g \in ConfiguredGrid}) = Cardinality(ConfiguredGrid)

\* The archive a summary row names holds the parameters of that row.
RowOwnsArchive(row) ==
    /\ row.traj_file \in DOMAIN sw_files
    /\ sw_files[row.traj_file].m_phi = row.m_phi
    /\ sw_files[row.traj_file].k_rot = row.k_rot
    /\ sw_files[row.traj_file].q = row.q
    /\ sw_files[row.traj_file].delta_phi_ini = row.delta_phi_ini

\* C21: the identifier of a grid point holds no "." and differs between any
\* two grid points of the configured lists; so the sweep overwrites no
\* archive: there are as many archives as rows, and the archive each summary
\* row names holds that row's own parameters, at the end of the sweep as at
\* every step before.
C21_TrajectoryIdsDistinct ==
    /\ ConfiguredIdsHaveNoDot
    /\ ConfiguredIdsDistinct
    /\ \A r \in 1..Len(sw_summary) : RowOwnsArchive(sw_summary[r])
    /\ sw_pc \in {"row", "next", "done"} =>
          Cardinality(DOMAIN sw_files) = LexRank(sw_idx)

\* The sweep is over with one archive per grid point, and the first row's
\* archive still holds the first grid point.
C21_Witness ==
    /\ sw_pc = "done"
    /\ Len(sw_summary) = SweepSize
    /\ SweepSize > 1
    /\ Cardinality(DOMAIN sw_files) = SweepSize
    /\ RowOwnsArchive(sw_summary[1])
    /\ sw_summary[1].traj_file =
          <<"t", "r", "a", "j", "_", "m", "0", "p", "2", "0", "_", "k", "0",
            "p", "0", "0", "_", "q", "1", "p", "0", "0", "_", "d", "0", "p",
            "0", "1", ".", "n", "p", "z">>

(***************************************************************************)
(* Claims about short sequences in the classifiers of the boundary scans.  *)
(***************************************************************************)
\* classify_sector of the fine scan has returned for a sequence shorter than
\* the 50 samples the sweep classifier asks for.
FineShortDone == cs_pc = "done" /\ Len(phi_array) < MIN_SAMPLES

\* C22: the classifiers of the boundary scans return C for every sequence
\* shorter than the minimum length (50 samples, as in
\* classify_phase_trajectory): on a short sequence the classify_sector of the
\* fine scan has returned C, and the classify_sector of the micro-fine scan
\* gives C for the same samples; a short constant sequence near zero is not A.
C22_ShortSequenceIsC ==
    FineShortDone =>
        /\ cs_ret = "C"
        /\ mf_classify_sector(phi_array) = "C"

====
